---- MODULE Spec2Model ----
(***************************************************************************)
(* Model of smart-git (sg): the AI command suggestion flow                 *)
(* (internal/commands/command_suggest.go), the response normalizer and the *)
(* reply decoding (internal/ai/gemini.go), the AI commit flow, the         *)
(* branch-name derivation and the push flow.                               *)
(*                                                                         *)
(* Go strings are modelled as sequences of one-character strings, so that  *)
(* strings.TrimSpace, strings.ToLower, strings.Contains and                *)
(* strings.HasPrefix are computed character by character.                  *)
(***************************************************************************)
EXTENDS Integers, Sequences, FiniteSets, TLC

VARIABLES
    nrCmd, nrRisk, nrOut, nrTwice,
    pc, ui, dryRun, autoAccept, envelope, suggestions, primary, steps,
    confirmLine, launched, exitStatus, retErr, notice, promptLine, stdin,
    cpc, repoBranch, analysis, message, risk, answer, gitOps, commitErr,
    tpc, caller, reply, rawJSON, replyErr,
    commitHeader, derived,
    ppc, startBranch, headBranch, lastSubject, suggestedBranch, pushAnswer, pushOps, pushErr,
    upstream, expired, candidates, textOut

vars == <<nrCmd, nrRisk, nrOut, nrTwice,
          pc, ui, dryRun, autoAccept, envelope, suggestions, primary, steps,
          confirmLine, launched, exitStatus, retErr, notice, promptLine, stdin,
          cpc, repoBranch, analysis, message, risk, answer, gitOps, commitErr,
          tpc, caller, reply, rawJSON, replyErr,
          commitHeader, derived,
          ppc, startBranch, headBranch, lastSubject, suggestedBranch, pushAnswer, pushOps, pushErr,
          upstream, expired, candidates, textOut>>

riskVars == <<nrCmd, nrRisk, nrOut, nrTwice>>

cmdVars == <<pc, ui, dryRun, autoAccept, envelope, suggestions, primary, steps,
             confirmLine, launched, exitStatus, retErr, notice, promptLine, stdin>>

commitVars == <<cpc, repoBranch, analysis, message, risk, answer, gitOps, commitErr>>

replyVars == <<tpc, caller, reply, rawJSON, replyErr>>

branchVars == <<commitHeader, derived>>

pushVars == <<ppc, startBranch, headBranch, lastSubject, suggestedBranch, pushAnswer, pushOps, pushErr,
              upstream>>

ctxVars == <<expired>>

textVars == <<candidates, textOut>>

-----------------------------------------------------------------------------
(* Bounds of the model.                                                    *)

\* words concatenated to build a command for the normalizeRisk inputs
MaxWords == 2
\* candidate records in one model reply
MaxCmds == 3
\* iterations of the line-prompt loop that do not terminate it
MaxSteps == 2

-----------------------------------------------------------------------------
(* Go's strings package on character sequences.                            *)

\* "no value yet"; it is no sequence of single characters, so no Go string
None == <<"<none>">>

LowerTable ==
    [A |-> "a", B |-> "b", C |-> "c", D |-> "d", E |-> "e", F |-> "f", G |-> "g",
     H |-> "h", I |-> "i", J |-> "j", K |-> "k", L |-> "l", M |-> "m", N |-> "n",
     O |-> "o", P |-> "p", Q |-> "q", R |-> "r", S |-> "s", T |-> "t", U |-> "u",
     V |-> "v", W |-> "w", X |-> "x", Y |-> "y", Z |-> "z"]

ToLower(s) ==
    [i \in 1..Len(s) |-> IF s[i] \in DOMAIN LowerTable THEN LowerTable[s[i]] ELSE s[i]]

ToUpper(s) ==
    [i \in 1..Len(s) |->
        IF \E u \in DOMAIN LowerTable : LowerTable[u] = s[i]
        THEN CHOOSE u \in DOMAIN LowerTable : LowerTable[u] = s[i]
        ELSE s[i]]

IsSpace(c) == c \in {" ", "\t", "\n", "\r"}

TrimSpace(s) ==
    LET keep == {i \in 1..Len(s) : ~IsSpace(s[i])}
        first == CHOOSE i \in keep : \A j \in keep : i <= j
        last == CHOOSE i \in keep : \A j \in keep : i >= j
    IN IF keep = {} THEN <<>> ELSE SubSeq(s, first, last)

Contains(s, p) ==
    \E i \in 0..(Len(s) - Len(p)) : SubSeq(s, i + 1, i + Len(p)) = p

HasPrefix(s, p) ==
    Len(s) >= Len(p) /\ SubSeq(s, 1, Len(p)) = p

-----------------------------------------------------------------------------
(* ai.RiskLevel and normalizeRisk.                                         *)

RiskLevelLow == <<"l","o","w">>

RiskLevelMedium == <<"m","e","d","i","u","m">>

RiskLevelHigh == <<"h","i","g","h">>

RiskLevels == {RiskLevelLow, RiskLevelMedium, RiskLevelHigh}

dangerousPatterns ==
    << <<"r","m"," ","-","r","f"," ","/">>,
       <<"r","m"," ","-","r","f"," ","/","*">>,
       <<":","(",")","{",":","|",":","&","}",";",":">>,
       <<"m","k","f","s">>,
       <<"d","d"," ","i","f","=">>,
       <<"m","k","l","a","b","e","l"," ","g","p","t">> >>

modifyingPrefixes ==
    << <<"r","m"," ">>, <<"m","v"," ">>, <<"c","p"," ">>,
       <<"s","u","d","o"," ">>, <<"c","h","m","o","d"," ">>,
       <<"c","h","o","w","n"," ">>,
       <<"g","i","t"," ","r","e","s","e","t">>,
       <<"g","i","t"," ","p","u","s","h">>,
       <<"g","i","t"," ","r","e","b","a","s","e">>,
       <<"g","i","t"," ","c","h","e","c","k","o","u","t">> >>

ContainsAny(s, patterns) ==
    \E i \in 1..Len(patterns) : Contains(s, patterns[i])

HasAnyPrefix(s, prefixes) ==
    \E i \in 1..Len(prefixes) : HasPrefix(s, prefixes[i])

\* mutant: the Low-prefix rule is tried before the destructive patterns
normalizeRisk_PrefixFirst(cmd, aiRisk) ==
    LET cmdLower == ToLower(cmd)
    IN IF aiRisk = RiskLevelLow /\ HasAnyPrefix(cmdLower, modifyingPrefixes)
       THEN RiskLevelMedium
       ELSE IF ContainsAny(cmdLower, dangerousPatterns) THEN RiskLevelHigh
       ELSE IF aiRisk = <<>> THEN RiskLevelLow
       ELSE aiRisk

\* mutant: a modifying prefix is searched anywhere in the command
normalizeRisk_PrefixAnywhere(cmd, aiRisk) ==
    LET cmdLower == ToLower(cmd)
    IN IF ContainsAny(cmdLower, dangerousPatterns) THEN RiskLevelHigh
       ELSE IF aiRisk = RiskLevelLow /\ ContainsAny(cmdLower, modifyingPrefixes)
       THEN RiskLevelMedium
       ELSE IF aiRisk = <<>> THEN RiskLevelLow
       ELSE aiRisk

\* mutant: the prefix rule is applied whatever the reported risk
normalizeRisk_PrefixAlways(cmd, aiRisk) ==
    LET cmdLower == ToLower(cmd)
    IN IF ContainsAny(cmdLower, dangerousPatterns) THEN RiskLevelHigh
       ELSE IF HasAnyPrefix(cmdLower, modifyingPrefixes) THEN RiskLevelMedium
       ELSE IF aiRisk = <<>> THEN RiskLevelLow
       ELSE aiRisk

normalizeRisk(cmd, aiRisk) ==
    LET cmdLower == ToLower(cmd)
    IN IF ContainsAny(cmdLower, dangerousPatterns) THEN RiskLevelHigh
       ELSE IF aiRisk = RiskLevelLow /\ HasAnyPrefix(cmdLower, modifyingPrefixes)
       THEN RiskLevelMedium
       ELSE IF aiRisk = <<>> THEN RiskLevelLow
       ELSE aiRisk

-----------------------------------------------------------------------------
(* normalizeRisk as a pure function: inputs drawn from bounded sets.       *)

FillerWords ==
    { <<"l","s">>, <<" ">>, <<"r","m","d","i","r"," ">> }

Words ==
    {dangerousPatterns[i] : i \in 1..Len(dangerousPatterns)}
    \cup {modifyingPrefixes[i] : i \in 1..Len(modifyingPrefixes)}
    \cup FillerWords

RECURSIVE Phrases(_)
Phrases(n) ==
    IF n = 0 THEN {<<>>}
    ELSE Phrases(n - 1) \cup {p \o w : p \in Phrases(n - 1), w \in Words}

RiskInputs == RiskLevels \cup {<<>>, <<"c","r","i","t","i","c","a","l">>}

InitRisk ==
    /\ \E p \in Phrases(MaxWords) : nrCmd \in {p, ToUpper(p)}
    /\ nrRisk \in RiskInputs
    /\ nrOut = None
    /\ nrTwice = None

NormalizeOnce ==
    /\ nrOut = None
    /\ nrOut' = normalizeRisk(nrCmd, nrRisk)
    /\ UNCHANGED <<nrCmd, nrRisk, nrTwice>>
    /\ UNCHANGED <<cmdVars, commitVars, replyVars, branchVars, pushVars, ctxVars, textVars>>

NormalizeAgain ==
    /\ nrOut # None
    /\ nrTwice = None
    /\ nrTwice' = normalizeRisk(nrCmd, nrOut)
    /\ UNCHANGED <<nrCmd, nrRisk, nrOut>>
    /\ UNCHANGED <<cmdVars, commitVars, replyVars, branchVars, pushVars, ctxVars, textVars>>

-----------------------------------------------------------------------------
(* ai.SuggestCommands: normalisation of the decoded suggestion envelope.   *)

\* no reply decoded yet
NoEnvelope == <<[Command |-> None, Risk |-> None]>>

\* the zero value ai.SuggestedCommand{}
NoSuggestion == [Command |-> <<>>, Risk |-> <<>>]

\* mutant: an unrecognized risk text is kept as the model wrote it
coerceRisk_PassThrough(raw) ==
    LET r == ToLower(TrimSpace(raw))
    IN IF r = <<>> THEN RiskLevelLow ELSE r

coerceRisk(raw) ==
    LET r == ToLower(TrimSpace(raw))
    IN IF r = <<>> THEN RiskLevelLow
       ELSE IF r \in RiskLevels THEN r
       ELSE RiskLevelMedium

\* mutant: a blank candidate is kept instead of skipped
RECURSIVE normalizeSuggestions_KeepBlank(_)
normalizeSuggestions_KeepBlank(cands) ==
    IF cands = <<>> THEN <<>>
    ELSE <<[Command |-> TrimSpace(Head(cands).Command),
            Risk |-> coerceRisk(Head(cands).Risk)]>>
         \o normalizeSuggestions_KeepBlank(Tail(cands))

RECURSIVE normalizeSuggestions(_)
normalizeSuggestions(cands) ==
    IF cands = <<>> THEN <<>>
    ELSE LET cmd == TrimSpace(Head(cands).Command)
         IN IF cmd = <<>> THEN normalizeSuggestions(Tail(cands))
            ELSE <<[Command |-> cmd, Risk |-> coerceRisk(Head(cands).Risk)]>>
                 \o normalizeSuggestions(Tail(cands))

-----------------------------------------------------------------------------
(* Inputs of the command flow.                                             *)

\* candidate records as the model may write them (command, risk)
RawCandidates ==
    { [Command |-> <<" ","l","s"," ">>, Risk |-> <<>>],
      [Command |-> <<"R","M"," ","x">>, Risk |-> <<"L","O","W">>],
      [Command |-> <<" "," ">>, Risk |-> <<"h","i","g","h">>],
      [Command |-> <<"r","m"," ","-","r","f"," ","/">>, Risk |-> <<"l","o","w">>],
      [Command |-> <<"p","s">>, Risk |-> <<"c","r","i","t","i","c","a","l">>],
      [Command |-> <<"g","i","t"," ","p","u","s","h">>, Risk |-> <<" ","H","i","g","h"," ">>] }

Envelopes == UNION {[1..n -> RawCandidates] : n \in 0..MaxCmds}

\* lines as bufio.Reader.ReadString('\n') returns them; <<>> is end of input
ChoiceLines ==
    { <<"y","\n">>, <<"\n">>, <<>>, <<"Y","E","S","\n">>,
      <<"N","o","\n">>, <<"n","\n">>,
      <<"e","\n">>, <<"e","d","i","t","\n">>,
      <<"s","\n">>, <<"m","o","r","e","\n">>,
      <<"z","\n">> }

EditLines ==
    { <<"\n">>, <<" ","l","s"," ","\n">>, <<"x"," ","M","K","F","S","\n">>,
      <<"m","v"," ","a">> }

BrowseLines ==
    { <<"\n">>, <<"1","\n">>, <<"2","\n">>, <<" ","3","\n">>, <<"0","\n">>,
      <<"9","\n">>, <<"-","1","\n">>, <<"a","\n">> }

ConfirmLines ==
    { <<"y","e","s","\n">>, <<" ","Y","E","S"," ","\n">>, <<"y","\n">>,
      <<"\n">>, <<>>, <<"n","o","\n">>, <<"y","e","s","s","\n">> }

\* how execCmd.Run() ends: 0 for a nil error, 1 for an *exec.ExitError (a
\* non-zero exit or a shell the context deadline killed), -1 for any other
\* error (the shell could not be started)
ExitStatuses == {0, 1, -1}

-----------------------------------------------------------------------------
(* strconv.Atoi                                                            *)

DigitChars == <<"0","1","2","3","4","5","6","7","8","9">>

DigitVal(c) == (CHOOSE i \in 1..10 : DigitChars[i] = c) - 1

IsDigit(c) == \E i \in 1..10 : DigitChars[i] = c

AtoiBody(s) == IF Len(s) > 0 /\ s[1] \in {"+", "-"} THEN Tail(s) ELSE s

AtoiOk(s) == Len(AtoiBody(s)) > 0 /\ \A i \in 1..Len(AtoiBody(s)) : IsDigit(AtoiBody(s)[i])

RECURSIVE DigitsVal(_)
DigitsVal(s) ==
    IF s = <<>> THEN 0
    ELSE 10 * DigitsVal(SubSeq(s, 1, Len(s) - 1)) + DigitVal(s[Len(s)])

Atoi(s) == IF s[1] = "-" THEN 0 - DigitsVal(AtoiBody(s)) ELSE DigitsVal(AtoiBody(s))

-----------------------------------------------------------------------------
(* runCommandSuggest / runSuggestedCommand: the command flow.              *)
(* pc is the position of the invocation: "start" (before the remote call), *)
(* "suggested" (SuggestCommands returned a list), "choice", "edit",        *)
(* "browse" (blocked on a read of the line-prompt loop), "menu" (blocked   *)
(* in promptui.Select), "confirm" (blocked on the High-risk confirmation   *)
(* read), "exec" (the shell runs the command), "done" (returned).          *)
(* ui selects the revision of runCommandSuggest: the line prompt or the    *)
(* menu. retErr is the returned error: "none" before the return, "nil", or *)
(* the error. notice is the status line printed before the return, "" when *)
(* none was. promptLine is the line read at the edit prompt or at the pick *)
(* prompt in the current turn of the loop, None outside. stdin is the      *)
(* standard input: Terminal, where any line may be typed at any prompt, or *)
(* the lines not yet read of an input that ends.                           *)

Terminal == << <<"<tty>">> >>

\* the lines reader.ReadString('\n') may return at a prompt whose answers
\* come from pool: at the end of the input it returns "" (and io.EOF, which
\* every caller drops)
ReadLines(pool) ==
    IF stdin = Terminal THEN pool
    ELSE IF stdin = <<>> THEN { <<>> }
    ELSE { Head(stdin) }

\* the standard input after that read
AfterRead ==
    IF stdin = Terminal \/ stdin = <<>> THEN stdin ELSE Tail(stdin)

\* the lines the reader that runSuggestedCommand creates may return: the
\* reader of the loop (or the menu) may have read ahead any number of the
\* lines left, which are lost with it; under --yes no reader came before
ConfirmReads(pool) ==
    IF stdin = Terminal THEN pool
    ELSE { IF k = Len(stdin) THEN <<>> ELSE stdin[k + 1] :
             k \in IF autoAccept THEN {0} ELSE 0..Len(stdin) }

Yes == <<"y","e","s">>

\* the status lines printed before a return
DryRunNotice == "Dry run mode: no commands will be executed."

CancelledNotice == "Cancelled. No command was executed."

HighRiskCancelledNotice == "Cancelled due to high risk."

ExitStatusNotice == "Command exited with status code 1"

RunErrorNotice == "Error while executing command"

InitCmd ==
    /\ pc = "start"
    /\ ui \in {"line", "menu"}
    /\ dryRun \in BOOLEAN
    /\ autoAccept \in BOOLEAN
    /\ envelope = NoEnvelope
    /\ suggestions = <<>>
    /\ primary = NoSuggestion
    /\ steps = 0
    /\ confirmLine = None
    /\ launched = <<>>
    /\ exitStatus = None
    /\ retErr = "none"
    /\ notice = ""
    /\ promptLine = None
    /\ stdin = Terminal

\* return err / return nil
Return(err) ==
    /\ pc' = "done"
    /\ retErr' = err

\* client.SuggestCommands: the reply decoded into an envelope, normalised
SuggestCommands ==
    /\ pc = "start"
    /\ ~expired
    /\ \E env \in Envelopes :
        /\ envelope' = env
        /\ IF Len(normalizeSuggestions(env)) = 0
           THEN /\ Return("Gemini returned no usable command suggestions")
                /\ UNCHANGED suggestions
           ELSE /\ suggestions' = normalizeSuggestions(env)
                /\ pc' = "suggested"
                /\ UNCHANGED retErr
    /\ UNCHANGED <<ui, dryRun, autoAccept, primary, steps, confirmLine, launched, exitStatus>>
    /\ UNCHANGED notice
    /\ UNCHANGED <<promptLine, stdin>>
    /\ UNCHANGED <<riskVars, commitVars, replyVars, branchVars, pushVars, ctxVars, textVars>>

\* client.SuggestCommands returns an error before the envelope is decoded
\* (transport, status, extraction or JSON failure)
SuggestCommandsFails ==
    /\ pc = "start"
    /\ Return("suggest commands failed")
    /\ UNCHANGED <<ui, dryRun, autoAccept, envelope, suggestions, primary, steps,
                   confirmLine, launched, exitStatus>>
    /\ UNCHANGED notice
    /\ UNCHANGED <<promptLine, stdin>>
    /\ UNCHANGED <<riskVars, commitVars, replyVars, branchVars, pushVars, ctxVars, textVars>>

\* mutant: "y" is accepted as the confirmation as well
confirmed_ShortYes(line) ==
    ToLower(TrimSpace(line)) \in {Yes, <<"y">>}

\* the High-risk confirmation test of runSuggestedCommand
confirmed(line) ==
    ToLower(TrimSpace(line)) = Yes

\* exec.CommandContext(ctx, shell, "-c", cmdStr) and execCmd.Run() starting
Launch(cmdStr) ==
    /\ launched' = Append(launched, cmdStr)
    /\ pc' = "exec"
    /\ UNCHANGED retErr

\* runSuggestedCommand up to its confirmation read or the launch
runSuggestedCommand(suggestion) ==
    /\ primary' = suggestion
    /\ IF TrimSpace(suggestion.Command) = <<>>
       THEN Return("no valid command to execute") /\ UNCHANGED launched
       ELSE IF suggestion.Risk = RiskLevelHigh
       THEN pc' = "confirm" /\ UNCHANGED <<launched, retErr>>
       ELSE Launch(TrimSpace(suggestion.Command))

\* s.Risk = normalizeRisk(s.Command, s.Risk)
withNormalizedRisk(s) ==
    [s EXCEPT !.Risk = normalizeRisk(s.Command, s.Risk)]

\* line-prompt revision, from the returned list to the first read
DispatchLine ==
    /\ pc = "suggested"
    /\ ui = "line"
    /\ IF dryRun
       THEN primary' = withNormalizedRisk(suggestions[1]) /\ Return("nil") /\ UNCHANGED launched
       ELSE IF autoAccept
       THEN runSuggestedCommand(withNormalizedRisk(suggestions[1]))
       ELSE /\ primary' = withNormalizedRisk(suggestions[1])
            /\ pc' = "choice"
            /\ UNCHANGED <<launched, retErr>>
    /\ UNCHANGED <<ui, dryRun, autoAccept, envelope, suggestions, steps, confirmLine, exitStatus>>
    /\ notice' = IF dryRun THEN DryRunNotice ELSE notice
    /\ UNCHANGED <<promptLine, stdin>>
    /\ UNCHANGED <<riskVars, commitVars, replyVars, branchVars, pushVars, ctxVars, textVars>>

\* mutant: auto-accept is tested before dry-run
DispatchMenu_AutoFirst ==
    /\ pc = "suggested"
    /\ ui = "menu"
    /\ IF autoAccept
       THEN runSuggestedCommand(withNormalizedRisk(suggestions[1]))
       ELSE IF dryRun
       THEN Return("nil") /\ UNCHANGED <<primary, launched>>
       ELSE pc' = "menu" /\ UNCHANGED <<primary, launched, retErr>>
    /\ UNCHANGED <<ui, dryRun, autoAccept, envelope, suggestions, steps, confirmLine, exitStatus>>
    /\ notice' = IF dryRun /\ ~autoAccept THEN DryRunNotice ELSE notice
    /\ UNCHANGED <<promptLine, stdin>>
    /\ UNCHANGED <<riskVars, commitVars, replyVars, branchVars, pushVars, ctxVars, textVars>>

\* menu revision, from the returned list to the menu prompt
DispatchMenu ==
    /\ pc = "suggested"
    /\ ui = "menu"
    /\ IF dryRun
       THEN Return("nil") /\ UNCHANGED <<primary, launched>>
       ELSE IF autoAccept
       THEN runSuggestedCommand(withNormalizedRisk(suggestions[1]))
       ELSE pc' = "menu" /\ UNCHANGED <<primary, launched, retErr>>
    /\ UNCHANGED <<ui, dryRun, autoAccept, envelope, suggestions, steps, confirmLine, exitStatus>>
    /\ notice' = IF dryRun THEN DryRunNotice ELSE notice
    /\ UNCHANGED <<promptLine, stdin>>
    /\ UNCHANGED <<riskVars, commitVars, replyVars, branchVars, pushVars, ctxVars, textVars>>

\* choice := strings.ToLower(strings.TrimSpace(line))
ChoiceOf(line) == ToLower(TrimSpace(line))

\* mutant: an empty choice is not an accept
AcceptChoices_NoEmpty == {<<"y">>, Yes}

AcceptChoices == {<<"y">>, Yes, <<>>}

DeclineChoices == {<<"n">>, <<"n","o">>}

EditChoices == {<<"e">>, <<"e","d","i","t">>}

BrowseChoices == {<<"s">>, <<"s","e","e">>, <<"m","o","r","e">>}

\* case "y", "yes", "": return runSuggestedCommand(ctx, primary)
ChoiceAccept ==
    /\ pc = "choice"
    /\ \E line \in ReadLines(ChoiceLines) : ChoiceOf(line) \in AcceptChoices
    /\ runSuggestedCommand(primary)
    /\ UNCHANGED <<ui, dryRun, autoAccept, envelope, suggestions, steps, confirmLine, exitStatus>>
    /\ UNCHANGED notice
    /\ promptLine' = None
    /\ stdin' = AfterRead
    /\ UNCHANGED <<riskVars, commitVars, replyVars, branchVars, pushVars, ctxVars, textVars>>

\* case "n", "no": return nil
ChoiceDecline ==
    /\ pc = "choice"
    /\ \E line \in ReadLines(ChoiceLines) : ChoiceOf(line) \in DeclineChoices
    /\ Return("nil")
    /\ UNCHANGED <<ui, dryRun, autoAccept, envelope, suggestions, primary, steps,
                   confirmLine, launched, exitStatus>>
    /\ notice' = CancelledNotice
    /\ promptLine' = None
    /\ stdin' = AfterRead
    /\ UNCHANGED <<riskVars, commitVars, replyVars, branchVars, pushVars, ctxVars, textVars>>

\* case "e", "edit": prompt for the replacement command
ChoiceEdit ==
    /\ pc = "choice"
    /\ steps < MaxSteps
    /\ \E line \in ReadLines(ChoiceLines) : ChoiceOf(line) \in EditChoices
    /\ pc' = "edit"
    /\ UNCHANGED <<ui, dryRun, autoAccept, envelope, suggestions, primary, steps,
                   confirmLine, launched, exitStatus, retErr>>
    /\ UNCHANGED notice
    /\ promptLine' = None
    /\ stdin' = AfterRead
    /\ UNCHANGED <<riskVars, commitVars, replyVars, branchVars, pushVars, ctxVars, textVars>>

\* case "s", "see", "more": selectAlternateSuggestion up to its read; with a
\* single suggestion it returns at once and the loop prompts again
ChoiceBrowse ==
    /\ pc = "choice"
    /\ steps < MaxSteps
    /\ \E line \in ReadLines(ChoiceLines) : ChoiceOf(line) \in BrowseChoices
    /\ IF Len(suggestions) <= 1
       THEN pc' = "choice" /\ steps' = steps + 1
       ELSE pc' = "browse" /\ UNCHANGED steps
    /\ UNCHANGED <<ui, dryRun, autoAccept, envelope, suggestions, primary,
                   confirmLine, launched, exitStatus, retErr>>
    /\ UNCHANGED notice
    /\ promptLine' = None
    /\ stdin' = AfterRead
    /\ UNCHANGED <<riskVars, commitVars, replyVars, branchVars, pushVars, ctxVars, textVars>>

\* default: "Invalid choice, please try again."
ChoiceInvalid ==
    /\ pc = "choice"
    /\ steps < MaxSteps
    /\ \E line \in ReadLines(ChoiceLines) :
         ChoiceOf(line) \notin AcceptChoices \cup DeclineChoices \cup EditChoices \cup BrowseChoices
    /\ steps' = steps + 1
    /\ UNCHANGED <<pc, ui, dryRun, autoAccept, envelope, suggestions, primary,
                   confirmLine, launched, exitStatus, retErr>>
    /\ UNCHANGED notice
    /\ promptLine' = None
    /\ stdin' = AfterRead
    /\ UNCHANGED <<riskVars, commitVars, replyVars, branchVars, pushVars, ctxVars, textVars>>

\* mutant: the edited command keeps the risk of the command it replaces
applyEdit_KeepRisk(current, line) ==
    IF TrimSpace(line) # <<>>
    THEN [current EXCEPT !.Command = TrimSpace(line)]
    ELSE current

\* mutant: the risk of the edited command is computed afresh
applyEdit_FreshRisk(current, line) ==
    IF TrimSpace(line) # <<>>
    THEN [Command |-> TrimSpace(line), Risk |-> normalizeRisk(TrimSpace(line), RiskLevelLow)]
    ELSE current

\* the edit branch: edited := strings.TrimSpace(line); if edited != "" ...
applyEdit(current, line) ==
    IF TrimSpace(line) # <<>>
    THEN withNormalizedRisk([current EXCEPT !.Command = TrimSpace(line)])
    ELSE current

EditCommand ==
    /\ pc = "edit"
    /\ \E line \in ReadLines(EditLines) :
         /\ promptLine' = line
         /\ stdin' = AfterRead
         /\ primary' = applyEdit(primary, line)
    /\ pc' = "choice"
    /\ steps' = steps + 1
    /\ UNCHANGED <<ui, dryRun, autoAccept, envelope, suggestions,
                   confirmLine, launched, exitStatus, retErr>>
    /\ UNCHANGED notice
    /\ UNCHANGED <<riskVars, commitVars, replyVars, branchVars, pushVars, ctxVars, textVars>>

\* mutant: a number out of range picks the first suggestion
pickAlternate_OutOfRangeIsFirst(all, current, line) ==
    LET trimmed == TrimSpace(line)
    IN IF trimmed = <<>> THEN [selected |-> current, ok |-> FALSE]
       ELSE IF ~AtoiOk(trimmed)
       THEN [selected |-> current, ok |-> FALSE]
       ELSE IF Atoi(trimmed) < 1 \/ Atoi(trimmed) > Len(all)
       THEN [selected |-> all[1], ok |-> TRUE]
       ELSE [selected |-> all[Atoi(trimmed)], ok |-> TRUE]

\* selectAlternateSuggestion after its read: the pick, or the current one
pickAlternate(all, current, line) ==
    LET trimmed == TrimSpace(line)
    IN IF trimmed = <<>> THEN [selected |-> current, ok |-> FALSE]
       ELSE IF ~AtoiOk(trimmed) \/ Atoi(trimmed) < 1 \/ Atoi(trimmed) > Len(all)
       THEN [selected |-> current, ok |-> FALSE]
       ELSE [selected |-> all[Atoi(trimmed)], ok |-> TRUE]

\* mutant: the pick is taken over without the safety overlay
BrowseAlternates_NoOverlay ==
    /\ pc = "browse"
    /\ \E line \in ReadLines(BrowseLines) :
         /\ promptLine' = line
         /\ stdin' = AfterRead
         /\ primary' = IF pickAlternate(suggestions, primary, line).ok
                        THEN pickAlternate(suggestions, primary, line).selected
                        ELSE primary
    /\ pc' = "choice"
    /\ steps' = steps + 1
    /\ UNCHANGED <<ui, dryRun, autoAccept, envelope, suggestions,
                   confirmLine, launched, exitStatus, retErr>>
    /\ UNCHANGED notice
    /\ UNCHANGED <<riskVars, commitVars, replyVars, branchVars, pushVars, ctxVars, textVars>>

\* case "s", "more": the list, the read, and primary = alt with its overlay
BrowseAlternates ==
    /\ pc = "browse"
    /\ \E line \in ReadLines(BrowseLines) :
         /\ promptLine' = line
         /\ stdin' = AfterRead
         /\ primary' = IF pickAlternate(suggestions, primary, line).ok
                        THEN withNormalizedRisk(pickAlternate(suggestions, primary, line).selected)
                        ELSE primary
    /\ pc' = "choice"
    /\ steps' = steps + 1
    /\ UNCHANGED <<ui, dryRun, autoAccept, envelope, suggestions,
                   confirmLine, launched, exitStatus, retErr>>
    /\ UNCHANGED notice
    /\ UNCHANGED <<riskVars, commitVars, replyVars, branchVars, pushVars, ctxVars, textVars>>

\* mutant: every suggestion is offered
MenuLimit_NoCap(all) == Len(all)

\* limit := len(suggestions); if limit > 2 { limit = 2 }
MenuLimit(all) == IF Len(all) > 2 THEN 2 ELSE Len(all)

\* the item labels of the select prompt without their risk tag: one per
\* offered suggestion, then "Cancel"
menuItems(all) ==
    [i \in 1..(MenuLimit(all) + 1) |->
        IF i <= MenuLimit(all) THEN all[i].Command ELSE <<"C","a","n","c","e","l">>]

\* chooseSuggestionInteractive returns suggestions[index], true
MenuPick ==
    /\ pc = "menu"
    /\ \E index \in 0..MenuLimit(suggestions) :
         /\ index < MenuLimit(suggestions)
         /\ runSuggestedCommand(withNormalizedRisk(suggestions[index + 1]))
    /\ UNCHANGED <<ui, dryRun, autoAccept, envelope, suggestions, steps, confirmLine, exitStatus>>
    /\ UNCHANGED notice
    /\ UNCHANGED <<promptLine, stdin>>
    /\ UNCHANGED <<riskVars, commitVars, replyVars, branchVars, pushVars, ctxVars, textVars>>

\* the Cancel item (index >= limit), or prompt.Run() returned an error
MenuCancel ==
    /\ pc = "menu"
    /\ Return("nil")
    /\ UNCHANGED <<ui, dryRun, autoAccept, envelope, suggestions, primary, steps,
                   confirmLine, launched, exitStatus>>
    /\ notice' = CancelledNotice
    /\ UNCHANGED <<promptLine, stdin>>
    /\ UNCHANGED <<riskVars, commitVars, replyVars, branchVars, pushVars, ctxVars, textVars>>

\* the High-risk confirmation read of runSuggestedCommand and what follows
ConfirmHighRisk ==
    /\ pc = "confirm"
    /\ \E line \in ConfirmReads(ConfirmLines) :
         /\ confirmLine' = line
         /\ IF confirmed(line)
            THEN Launch(TrimSpace(primary.Command)) /\ UNCHANGED notice
            ELSE Return("nil") /\ notice' = HighRiskCancelledNotice /\ UNCHANGED launched
    /\ UNCHANGED <<ui, dryRun, autoAccept, envelope, suggestions, primary, steps, exitStatus>>
    /\ UNCHANGED promptLine
    /\ stdin' = IF stdin = Terminal THEN stdin ELSE <<>>
    /\ UNCHANGED <<riskVars, commitVars, replyVars, branchVars, pushVars, ctxVars, textVars>>

\* mutant: the shell runs under a deadline of its own
ShellExit_OwnDeadline ==
    /\ pc = "exec"
    /\ \E st \in ExitStatuses :
         /\ exitStatus' = <<st>>
         /\ Return(IF st = 0 THEN "nil" ELSE IF st = 1 THEN "exit status 1" ELSE "run failed")
         /\ notice' = IF st = 0 THEN notice
                      ELSE IF st = 1 THEN ExitStatusNotice ELSE RunErrorNotice
    /\ UNCHANGED <<ui, dryRun, autoAccept, envelope, suggestions, primary, steps,
                   confirmLine, launched>>
    /\ UNCHANGED <<promptLine, stdin>>
    /\ UNCHANGED <<riskVars, commitVars, replyVars, branchVars, pushVars, ctxVars, textVars>>

\* execCmd.Run() returns: nil on exit status 0, the error otherwise; under a
\* context whose deadline has passed the shell is not started, or is killed
ShellExit ==
    /\ pc = "exec"
    /\ \E st \in IF expired THEN ExitStatuses \ {0} ELSE ExitStatuses :
         /\ exitStatus' = <<st>>
         /\ Return(IF st = 0 THEN "nil" ELSE IF st = 1 THEN "exit status 1" ELSE "run failed")
         /\ notice' = IF st = 0 THEN notice
                      ELSE IF st = 1 THEN ExitStatusNotice ELSE RunErrorNotice
    /\ UNCHANGED <<ui, dryRun, autoAccept, envelope, suggestions, primary, steps,
                   confirmLine, launched>>
    /\ UNCHANGED <<promptLine, stdin>>
    /\ UNCHANGED <<riskVars, commitVars, replyVars, branchVars, pushVars, ctxVars, textVars>>

IdleRisk ==
    /\ nrCmd = <<>>
    /\ nrRisk = <<>>
    /\ nrOut = None
    /\ nrTwice = None

IdleCmd ==
    /\ pc = "idle"
    /\ ui = "line"
    /\ dryRun = FALSE
    /\ autoAccept = FALSE
    /\ envelope = NoEnvelope
    /\ suggestions = <<>>
    /\ primary = NoSuggestion
    /\ steps = 0
    /\ confirmLine = None
    /\ launched = <<>>
    /\ exitStatus = None
    /\ retErr = "none"
    /\ notice = ""
    /\ promptLine = None
    /\ stdin = Terminal

IdleCommit ==
    /\ cpc = "idle"
    /\ repoBranch = <<>>
    /\ analysis = None
    /\ message = <<>>
    /\ risk = <<>>
    /\ answer = None
    /\ gitOps = <<>>
    /\ commitErr = "none"

\* the error of the reply decoding before it returned
NoReplyErr == [msg |-> "none", text |-> <<>>]

IdleReply ==
    /\ tpc = "idle"
    /\ caller = ""
    /\ reply = <<>>
    /\ rawJSON = None
    /\ replyErr = NoReplyErr

IdleBranch ==
    /\ commitHeader = <<>>
    /\ derived = None

IdlePush ==
    /\ ppc = "idle"
    /\ startBranch = <<>>
    /\ headBranch = <<>>
    /\ lastSubject = <<>>
    /\ suggestedBranch = None
    /\ pushAnswer = None
    /\ pushOps = <<>>
    /\ pushErr = "none"
    /\ upstream = FALSE

\* the deadline of the context of the invocation has not passed
IdleCtx == expired = FALSE

\* the result of extractText before it returned
NoTextOut == [text |-> None, err |-> "none"]

IdleText ==
    /\ candidates = <<>>
    /\ textOut = NoTextOut

Init == InitCmd /\ IdleRisk /\ IdleCommit /\ IdleReply /\ IdleBranch /\ IdlePush /\ IdleCtx /\ IdleText

Next ==
    \/ SuggestCommands
    \/ SuggestCommandsFails
    \/ DispatchLine
    \/ DispatchMenu
    \/ ChoiceAccept
    \/ ChoiceDecline
    \/ ChoiceEdit
    \/ ChoiceBrowse
    \/ ChoiceInvalid
    \/ EditCommand
    \/ BrowseAlternates
    \/ MenuPick
    \/ MenuCancel
    \/ ConfirmHighRisk
    \/ ShellExit


Spec == Init /\ [][Next]_vars

(***************************************************************************)
(* The same invocation with the deadline of its context:                   *)
(* ctx, cancel := context.WithTimeout(cmd.Context(), timeout) bounds       *)
(* client.SuggestCommands and exec.CommandContext alike; the deadline may  *)
(* pass at any moment before runCommandSuggest returns, the waits for user *)
(* input included.                                                         *)
(***************************************************************************)
DeadlinePasses ==
    /\ pc \notin {"idle", "done"}
    /\ ~expired
    /\ expired' = TRUE
    /\ UNCHANGED <<riskVars, cmdVars, commitVars, replyVars, branchVars, pushVars, textVars>>

NextDeadline ==
    \/ SuggestCommands
    \/ SuggestCommandsFails
    \/ DispatchLine
    \/ DispatchMenu
    \/ ChoiceAccept
    \/ ChoiceDecline
    \/ ChoiceEdit
    \/ ChoiceBrowse
    \/ ChoiceInvalid
    \/ EditCommand
    \/ BrowseAlternates
    \/ MenuPick
    \/ MenuCancel
    \/ ConfirmHighRisk
    \/ ShellExit
    \/ DeadlinePasses

SpecDeadline == Init /\ [][NextDeadline]_vars

(***************************************************************************)
(* The line-prompt loop on a standard input that ends (a pipe, a file): an *)
(* input of at most MaxSteps lines, so that the cap on the turns of the    *)
(* loop never cuts a run short. The last line may lack its newline. Every  *)
(* step of the invocation is taken in the end: a read on such an input     *)
(* always returns, and so does the shell.                                  *)
(***************************************************************************)
StdinLines ==
    { <<"y","e","s","\n">>, <<"n","\n">>, <<"e","\n">>, <<"s","\n">>, <<"2","\n">> }

\* a last line that the end of the input cuts off
CutLine == <<"e">>

StdinInputs ==
    { in \in UNION {[1..n -> StdinLines \cup {CutLine}] : n \in 0..MaxSteps} :
        \A i \in 1..(Len(in) - 1) : in[i] # CutLine }

InitStdin ==
    /\ pc = "start"
    /\ ui = "line"
    /\ dryRun = FALSE
    /\ autoAccept = FALSE
    /\ envelope = NoEnvelope
    /\ suggestions = <<>>
    /\ primary = NoSuggestion
    /\ steps = 0
    /\ confirmLine = None
    /\ launched = <<>>
    /\ exitStatus = None
    /\ retErr = "none"
    /\ notice = ""
    /\ promptLine = None
    /\ stdin \in StdinInputs
    /\ IdleRisk /\ IdleCommit /\ IdleReply /\ IdleBranch /\ IdlePush /\ IdleCtx /\ IdleText

NextStdin ==
    \/ SuggestCommands
    \/ SuggestCommandsFails
    \/ DispatchLine
    \/ ChoiceAccept
    \/ ChoiceDecline
    \/ ChoiceEdit
    \/ ChoiceBrowse
    \/ ChoiceInvalid
    \/ EditCommand
    \/ BrowseAlternates
    \/ ConfirmHighRisk
    \/ ShellExit

SpecStdin == InitStdin /\ [][NextStdin]_vars /\ WF_vars(NextStdin)

InitRiskOnly == InitRisk /\ IdleCmd /\ IdleCommit /\ IdleReply /\ IdleBranch /\ IdlePush /\ IdleCtx /\ IdleText

NextRisk ==
    \/ NormalizeOnce
    \/ NormalizeAgain

SpecRisk == InitRiskOnly /\ [][NextRisk]_vars

-----------------------------------------------------------------------------
(* isProtectedBranch, deriveBranchNameFromCommit, slugify.                 *)

ProtectedNames ==
    { <<"m","a","i","n">>, <<"m","a","s","t","e","r">>,
      <<"d","e","v","e","l","o","p">>, <<"d","e","v">> }

isProtectedBranch(name) == ToLower(TrimSpace(name)) \in ProtectedNames

\* the length cap of the description slug
SlugCap == 40

LowerAlnum ==
    {"a","b","c","d","e","f","g","h","i","j","k","l","m","n","o","p","q","r",
     "s","t","u","v","w","x","y","z","0","1","2","3","4","5","6","7","8","9"}

\* the loop of slugify: b is the builder, lastDash its flag
RECURSIVE slugLoop(_, _, _)
slugLoop(s, b, lastDash) ==
    IF s = <<>> THEN b
    ELSE IF Head(s) \in LowerAlnum THEN slugLoop(Tail(s), Append(b, Head(s)), FALSE)
    ELSE IF ~lastDash THEN slugLoop(Tail(s), Append(b, "-"), TRUE)
    ELSE slugLoop(Tail(s), b, lastDash)

\* strings.Trim(s, "-")
TrimDashes(s) ==
    LET keep == {i \in 1..Len(s) : s[i] # "-"}
        first == CHOOSE i \in keep : \A j \in keep : i <= j
        last == CHOOSE i \in keep : \A j \in keep : i >= j
    IN IF keep = {} THEN <<>> ELSE SubSeq(s, first, last)

slugify(s) == TrimDashes(slugLoop(ToLower(TrimSpace(s)), <<>>, FALSE))

\* strings.Index(s, c) for a one-character c, counted from 1; 0 when absent
IndexOf(s, c) ==
    IF \E i \in 1..Len(s) : s[i] = c
    THEN CHOOSE i \in 1..Len(s) : s[i] = c /\ \A j \in 1..(i - 1) : s[j] # c
    ELSE 0

\* mutant: a type without a category of its own is kept as the category
mapCommitTypeToBranchCategory_PassUnknown(t) ==
    IF t = <<"f","e","a","t">> THEN <<"f","e","a","t","u","r","e">> ELSE t

mapCommitTypeToBranchCategory(t) ==
    IF t = <<"f","e","a","t">> THEN <<"f","e","a","t","u","r","e">>
    ELSE IF t \in { <<"f","i","x">>, <<"r","e","f","a","c","t","o","r">>,
                    <<"p","e","r","f">>, <<"s","t","y","l","e">>, <<"t","e","s","t">>,
                    <<"d","o","c","s">>, <<"b","u","i","l","d">>, <<"o","p","s">>,
                    <<"c","h","o","r","e">>, <<"r","e","v","e","r","t">> }
    THEN t
    ELSE <<"f","e","a","t","u","r","e">>

\* mutant: the breaking-change "!" stays in the prefix
stripBang_Keep(prefix) ==
    prefix

\* prefix with the breaking-change "!" removed
stripBang(prefix) ==
    IF Len(prefix) > 0 /\ prefix[Len(prefix)] = "!"
    THEN TrimSpace(SubSeq(prefix, 1, Len(prefix) - 1))
    ELSE prefix

\* the type of "<type>(scope)" or "<type>", lower-cased
typePartOf(prefix) ==
    ToLower(TrimSpace(IF IndexOf(prefix, "(") # 0
                      THEN SubSeq(prefix, 1, IndexOf(prefix, "(") - 1)
                      ELSE prefix))

capSlug(descSlug) ==
    LET cut == IF Len(descSlug) > SlugCap THEN SubSeq(descSlug, 1, SlugCap) ELSE descSlug
    IN IF cut = <<>> THEN <<"c","h","a","n","g","e","s">> ELSE cut

deriveBranchNameFromCommit(rawHeader) ==
    LET header == TrimSpace(rawHeader)
        colonIdx == IndexOf(header, ":")
        prefix == TrimSpace(SubSeq(header, 1, colonIdx - 1))
        desc == TrimSpace(SubSeq(header, colonIdx + 1, Len(header)))
    IN IF header = <<>> THEN <<"f","e","a","t","u","r","e","/","c","h","a","n","g","e","s">>
       ELSE IF colonIdx = 0 THEN <<"f","e","a","t","u","r","e","/">> \o slugify(header)
       ELSE mapCommitTypeToBranchCategory(typePartOf(stripBang(prefix)))
            \o <<"/">> \o capSlug(slugify(desc))

-----------------------------------------------------------------------------
(* runCommit: the commit flow.                                             *)
(* cpc is the position: "start", "analyze" (before the remote call),       *)
(* "prompt" (blocked on the privacy confirmation read), "branch", "stage", *)
(* "commit" (before the git call of that name), "done" (returned).         *)
(* gitOps lists the mutating git calls made, each with its argument and    *)
(* whether it succeeded.                                                   *)

NoAnalysis == [CommitMessage |-> None, BranchName |-> None, PrivacyRisk |-> None]

\* repoInfo.Branch of the repository the command runs in
RepoBranches ==
    { <<"m","a","i","n">>, <<"D","e","v","e","l","o","p">>,
      <<"f","e","a","t","u","r","e","/","x">>, <<>> }

\* the commit analysis as the model may write it
RawMessages ==
    { <<"f","e","a","t",":"," ","a","d","d"," ","x">>,
      <<" ","f","i","x","(","u","i",")","!",":"," ","Y"," ","z","\n">>,
      <<" ">> }

RawBranchNames ==
    { <<>>, <<" ","f","i","x","/","a"," ">>, <<"m","a","i","n">>, <<" ","D","e","v"," ">> }

RawPrivacyRisks ==
    { <<>>, <<"l","o","w">>, <<" ","H","i","g","h"," ">>,
      <<"M","E","D","I","U","M">>, <<"c","r","i","t","i","c","a","l">> }

RawAnalyses ==
    [CommitMessage : RawMessages, BranchName : RawBranchNames, PrivacyRisk : RawPrivacyRisks]

AnswerLines ==
    { <<"y","\n">>, <<" ","Y","E","S","\n">>, <<"\n">>, <<>>, <<"n","\n">>,
      <<"o","k","\n">> }

InitCommit ==
    /\ cpc = "start"
    /\ repoBranch \in RepoBranches
    /\ analysis = NoAnalysis
    /\ message = <<>>
    /\ risk = <<>>
    /\ answer = None
    /\ gitOps = <<>>
    /\ commitErr = "none"

ReturnCommit(err) ==
    /\ cpc' = "done"
    /\ commitErr' = err

\* runCommit before the analysis: repository check, status, API key, diffs
CommitPreflight ==
    /\ cpc = "start"
    /\ \E outcome \in {"ok", "no changes", "error"} :
         IF outcome = "ok" THEN cpc' = "analyze" /\ UNCHANGED commitErr
         ELSE IF outcome = "no changes" THEN ReturnCommit("nil")
         ELSE ReturnCommit("preflight failed")
    /\ UNCHANGED <<repoBranch, analysis, message, risk, answer, gitOps>>
    /\ UNCHANGED <<riskVars, cmdVars, replyVars, branchVars, pushVars, ctxVars, textVars>>

\* AnalyzeCommit's normalisation of the parsed reply
normalizeAnalysis(parsed) ==
    [CommitMessage |-> TrimSpace(parsed.CommitMessage),
     BranchName |-> TrimSpace(parsed.BranchName),
     PrivacyRisk |-> ToLower(TrimSpace(parsed.PrivacyRisk))]

\* risk := strings.ToLower(strings.TrimSpace(analysis.PrivacyRisk)), "" is "low"
privacyRiskOf(a) ==
    IF ToLower(TrimSpace(a.PrivacyRisk)) = <<>> THEN RiskLevelLow
    ELSE ToLower(TrimSpace(a.PrivacyRisk))

\* mutant: an empty commit message is let through
emptyMessage_Never(m) == FALSE

\* message := strings.TrimSpace(analysis.CommitMessage); if message == ""
emptyMessage(m) == TrimSpace(m) = <<>>

\* mutant: only a high privacy risk asks for the confirmation
needsConfirmation_HighOnly(r) == r = RiskLevelHigh

\* if risk == "high" || risk == "medium"
needsConfirmation(r) == r = RiskLevelHigh \/ r = RiskLevelMedium

\* mutant: no branch is created on a protected branch
Proceed_SkipBranch ==
    cpc' = "stage"

\* the first mutating step: a new branch when on a protected one
Proceed ==
    cpc' = IF isProtectedBranch(repoBranch) THEN "branch" ELSE "stage"

\* client.AnalyzeCommit returned; runCommit up to the confirmation read
AnalyzeCommit ==
    /\ cpc = "analyze"
    /\ \E parsed \in RawAnalyses :
         /\ analysis' = normalizeAnalysis(parsed)
         /\ message' = TrimSpace(normalizeAnalysis(parsed).CommitMessage)
         /\ IF emptyMessage(normalizeAnalysis(parsed).CommitMessage)
            THEN ReturnCommit("AI returned an empty commit message") /\ UNCHANGED risk
            ELSE /\ risk' = privacyRiskOf(normalizeAnalysis(parsed))
                 /\ UNCHANGED commitErr
                 /\ IF needsConfirmation(privacyRiskOf(normalizeAnalysis(parsed)))
                    THEN cpc' = "prompt"
                    ELSE Proceed
    /\ UNCHANGED <<repoBranch, answer, gitOps>>
    /\ UNCHANGED <<riskVars, cmdVars, replyVars, branchVars, pushVars, ctxVars, textVars>>

\* client.AnalyzeCommit returned an error
AnalyzeCommitFails ==
    /\ cpc = "analyze"
    /\ ReturnCommit("analyze commit failed")
    /\ UNCHANGED <<repoBranch, analysis, message, risk, answer, gitOps>>
    /\ UNCHANGED <<riskVars, cmdVars, replyVars, branchVars, pushVars, ctxVars, textVars>>

\* answer != "y" && answer != "yes" aborts
affirmative(line) == ToLower(TrimSpace(line)) \in {<<"y">>, Yes}

\* the privacy confirmation read
AnswerPrivacyPrompt ==
    /\ cpc = "prompt"
    /\ \E line \in AnswerLines :
         /\ answer' = line
         /\ IF affirmative(line)
            THEN Proceed /\ UNCHANGED commitErr
            ELSE ReturnCommit("nil")
    /\ UNCHANGED <<repoBranch, analysis, message, risk, gitOps>>
    /\ UNCHANGED <<riskVars, cmdVars, replyVars, branchVars, pushVars, ctxVars, textVars>>

\* finalBranchName: the model's branch name, or the one derived from the message
finalBranchName ==
    IF analysis.BranchName = <<>> THEN deriveBranchNameFromCommit(message)
    ELSE analysis.BranchName

\* git.CreateAndCheckoutBranch(ctx, wd, finalBranchName); git checkout -b
\* fails for the name of the branch HEAD is on, which exists
CreateAndCheckoutBranch ==
    /\ cpc = "branch"
    /\ \E ok \in IF finalBranchName = repoBranch THEN {FALSE} ELSE BOOLEAN :
         /\ gitOps' = Append(gitOps, [op |-> "checkout -b", arg |-> finalBranchName, ok |-> ok])
         /\ IF ok THEN cpc' = "stage" /\ UNCHANGED commitErr
            ELSE ReturnCommit("git checkout -b failed")
    /\ UNCHANGED <<repoBranch, analysis, message, risk, answer>>
    /\ UNCHANGED <<riskVars, cmdVars, replyVars, branchVars, pushVars, ctxVars, textVars>>

\* mutant: a failed git add -A is passed over
AddAll_ContinueOnError ==
    /\ cpc = "stage"
    /\ \E ok \in BOOLEAN :
         /\ gitOps' = Append(gitOps, [op |-> "add -A", arg |-> <<>>, ok |-> ok])
         /\ cpc' = "commit"
         /\ UNCHANGED commitErr
    /\ UNCHANGED <<repoBranch, analysis, message, risk, answer>>
    /\ UNCHANGED <<riskVars, cmdVars, replyVars, branchVars, pushVars, ctxVars, textVars>>

\* git.AddAll(ctx, wd)
AddAll ==
    /\ cpc = "stage"
    /\ \E ok \in BOOLEAN :
         /\ gitOps' = Append(gitOps, [op |-> "add -A", arg |-> <<>>, ok |-> ok])
         /\ IF ok THEN cpc' = "commit" /\ UNCHANGED commitErr
            ELSE ReturnCommit("git add -A failed")
    /\ UNCHANGED <<repoBranch, analysis, message, risk, answer>>
    /\ UNCHANGED <<riskVars, cmdVars, replyVars, branchVars, pushVars, ctxVars, textVars>>

\* git.Commit(ctx, wd, message)
Commit ==
    /\ cpc = "commit"
    /\ \E ok \in BOOLEAN :
         /\ gitOps' = Append(gitOps, [op |-> "commit -m", arg |-> message, ok |-> ok])
         /\ IF ok THEN ReturnCommit("nil")
            ELSE ReturnCommit("git commit failed")
    /\ UNCHANGED <<repoBranch, analysis, message, risk, answer>>
    /\ UNCHANGED <<riskVars, cmdVars, replyVars, branchVars, pushVars, ctxVars, textVars>>

InitCommitOnly == InitCommit /\ IdleRisk /\ IdleCmd /\ IdleReply /\ IdleBranch /\ IdlePush /\ IdleCtx /\ IdleText

NextCommit ==
    \/ CommitPreflight
    \/ AnalyzeCommit
    \/ AnalyzeCommitFails
    \/ AnswerPrivacyPrompt
    \/ CreateAndCheckoutBranch
    \/ AddAll
    \/ Commit

SpecCommit == InitCommitOnly /\ [][NextCommit]_vars

-----------------------------------------------------------------------------
(* extractJSONBlock and the decoding of the reply text in SuggestCommands  *)
(* and AnalyzeCommit (internal/ai/gemini.go).                              *)
(* tpc is the position: "text" (extractText returned the reply),           *)
(* "extracted" (extractJSONBlock returned), "done" (the caller returned).  *)
(* replyErr is the returned error with the text it quotes; its msg is      *)
(* "nil" for a return without error.                                       *)

\* the longest reply text
MaxText == 5

ReplyChars == {"{", "}", "a", " "}

\* objects with a member whose string holds a brace, whole and cut short
QuotedObjects ==
    { <<"{","\"","a","\"",":","\"","{","\"","}">>,
      <<"{","\"","a","\"",":","\"","}","\"","}">>,
      <<"{","\"","{","\"",":","0","}">>,
      <<"{","\"","a","\"",":","\"","{","\"">>,
      <<"{","\"","a","\"",":","0",",","\"","b","\"",":","\"","{","{","\"","}">> }

LeadTexts == { <<>>, <<"a"," ">> }

TrailTexts == { <<>>, <<" ","a">>, <<" ","}">> }

\* extractText returns a trimmed, non-empty text: every short text over
\* ReplyChars, and the quoted objects with some text around them
ReplyTexts ==
    {t \in UNION {[1..n -> ReplyChars] : n \in 1..MaxText} : TrimSpace(t) = t}
    \cup {lead \o object \o trail :
            lead \in LeadTexts, object \in QuotedObjects, trail \in TrailTexts}

Callers == {"SuggestCommands", "AnalyzeCommit"}

\* the loop of extractJSONBlock at index i with the depth counted so far
RECURSIVE scanBlock(_, _, _, _)
scanBlock(s, start, i, depth) ==
    IF i > Len(s) THEN SubSeq(s, start, Len(s))
    ELSE IF s[i] = "{" THEN scanBlock(s, start, i + 1, depth + 1)
    ELSE IF s[i] = "}"
    THEN IF depth - 1 = 0 THEN SubSeq(s, start, i)
         ELSE scanBlock(s, start, i + 1, depth - 1)
    ELSE scanBlock(s, start, i + 1, depth)

\* mutant: a block that never closes is dropped
extractJSONBlock_DropOpen(s) ==
    IF IndexOf(s, "{") = 0 THEN <<>>
    ELSE IF scanBlock(s, IndexOf(s, "{"), IndexOf(s, "{"), 0)[
                Len(scanBlock(s, IndexOf(s, "{"), IndexOf(s, "{"), 0))] = "}"
    THEN scanBlock(s, IndexOf(s, "{"), IndexOf(s, "{"), 0)
    ELSE <<>>

\* mutant: the block runs to the last closing brace of the text
extractJSONBlock_Greedy(s) ==
    LET closes == {i \in 1..Len(s) : s[i] = "}" /\ i > IndexOf(s, "{")}
    IN IF IndexOf(s, "{") = 0 THEN <<>>
       ELSE IF closes = {} THEN SubSeq(s, IndexOf(s, "{"), Len(s))
       ELSE SubSeq(s, IndexOf(s, "{"), CHOOSE i \in closes : \A j \in closes : j <= i)

extractJSONBlock(s) ==
    IF IndexOf(s, "{") = 0 THEN <<>>
    ELSE scanBlock(s, IndexOf(s, "{"), IndexOf(s, "{"), 0)

\* mutant: the test for a missing object is left out
noJSONObject_Never(block) ==
    FALSE

\* if strings.TrimSpace(rawJSON) == ""
noJSONObject(block) ==
    TrimSpace(block) = <<>>

\* encoding/json's scanner over a text, by position: each operator returns
\* the index after what it read, or 0 when the text is not JSON there
RECURSIVE skipWs(_, _)
skipWs(s, i) ==
    IF i <= Len(s) /\ IsSpace(s[i]) THEN skipWs(s, i + 1) ELSE i

\* a string: a quote, then everything up to the next quote (the texts hold
\* no backslash and no control character)
jsonString(s, i) ==
    IF i = 0 \/ i > Len(s) \/ s[i] # "\"" THEN 0
    ELSE LET closing == {j \in (i + 1)..Len(s) : s[j] = "\""}
         IN IF closing = {} THEN 0
            ELSE (CHOOSE j \in closing : \A k \in closing : j <= k) + 1

\* a number: 0, or digits that do not start with 0
RECURSIVE skipDigits(_, _)
skipDigits(s, i) ==
    IF i <= Len(s) /\ IsDigit(s[i]) THEN skipDigits(s, i + 1) ELSE i

jsonNumber(s, i) ==
    IF i = 0 \/ i > Len(s) \/ ~IsDigit(s[i]) THEN 0
    ELSE IF s[i] = "0" THEN i + 1
    ELSE skipDigits(s, i)

\* a member value: a string or a number
jsonValue(s, i) ==
    IF jsonString(s, i) # 0 THEN jsonString(s, i) ELSE jsonNumber(s, i)

\* the members of an object from index i on, up to and with its closing brace
RECURSIVE jsonMembers(_, _)
jsonMembers(s, i) ==
    LET afterKey == skipWs(s, jsonString(s, i))
        afterColon == IF jsonString(s, i) # 0 /\ afterKey <= Len(s) /\ s[afterKey] = ":"
                      THEN skipWs(s, afterKey + 1) ELSE 0
        afterValue == IF afterColon = 0 \/ jsonValue(s, afterColon) = 0 THEN 0
                      ELSE skipWs(s, jsonValue(s, afterColon))
    IN IF afterValue = 0 \/ afterValue > Len(s) THEN 0
       ELSE IF s[afterValue] = "}" THEN afterValue + 1
       ELSE IF s[afterValue] = "," THEN jsonMembers(s, skipWs(s, afterValue + 1))
       ELSE 0

jsonObject(s, i) ==
    IF i > Len(s) \/ s[i] # "{" THEN 0
    ELSE IF skipWs(s, i + 1) <= Len(s) /\ s[skipWs(s, i + 1)] = "}"
    THEN skipWs(s, i + 1) + 1
    ELSE jsonMembers(s, skipWs(s, i + 1))

\* json.Unmarshal into a struct succeeds exactly when the text is one JSON
\* object, white space around it apart; the members of the texts at hand
\* have keys the struct has no field for, so they are skipped
jsonValid(block) ==
    /\ jsonObject(block, skipWs(block, 1)) # 0
    /\ skipWs(block, jsonObject(block, skipWs(block, 1))) = Len(block) + 1

\* what the caller returns for the reply text once the block is extracted
decodeBlock(fn, text, block) ==
    IF noJSONObject(block)
    THEN [msg |-> "failed to find JSON object in Gemini response", text |-> text]
    ELSE IF ~jsonValid(block)
    THEN [msg |-> IF fn = "SuggestCommands"
                  THEN "failed to parse command suggestions JSON from Gemini"
                  ELSE "failed to parse commit analysis JSON from Gemini",
          text |-> block]
    ELSE IF fn = "SuggestCommands"
    THEN [msg |-> "Gemini returned no usable command suggestions", text |-> <<>>]
    ELSE [msg |-> "nil", text |-> <<>>]

InitReply ==
    /\ tpc = "text"
    /\ caller \in Callers
    /\ reply \in ReplyTexts
    /\ rawJSON = None
    /\ replyErr = NoReplyErr

\* rawJSON := extractJSONBlock(text)
ExtractBlock ==
    /\ tpc = "text"
    /\ rawJSON' = extractJSONBlock(reply)
    /\ tpc' = "extracted"
    /\ UNCHANGED <<caller, reply, replyErr>>
    /\ UNCHANGED <<riskVars, cmdVars, commitVars, branchVars, pushVars, ctxVars, textVars>>

\* the rest of the caller: the missing-object test, json.Unmarshal, the
\* test for an empty list
DecodeBlock ==
    /\ tpc = "extracted"
    /\ replyErr' = decodeBlock(caller, reply, rawJSON)
    /\ tpc' = "done"
    /\ UNCHANGED <<caller, reply, rawJSON>>
    /\ UNCHANGED <<riskVars, cmdVars, commitVars, branchVars, pushVars, ctxVars, textVars>>

InitReplyOnly == InitReply /\ IdleRisk /\ IdleCmd /\ IdleCommit /\ IdleBranch /\ IdlePush /\ IdleCtx /\ IdleText

NextReply ==
    \/ ExtractBlock
    \/ DecodeBlock

SpecReply == InitReplyOnly /\ [][NextReply]_vars

-----------------------------------------------------------------------------
(* deriveBranchNameFromCommit as a function of the commit header.          *)

\* the longest run of letters in a description
MaxRun == 39

Letters(n) == [i \in 1..n |-> "a"]

TypeTexts ==
    { <<>>, <<"f","e","a","t">>, <<"F","I","X">>, <<"s","t","y","l","e">>, <<"w","i","p">>, <<" ","D","o","c","s"," ">> }

ScopeTexts == { <<>>, <<"(","u","i",")">> }

BangTexts == { <<>>, <<"!">>, <<"!","!">> }

ColonTexts == { <<>>, <<":">> }

DescTexts ==
    { <<>>, <<" ">>, <<"!","!">>, <<" ","A","d","d"," "," ","l","o","g","-","i","n","!"," ">>, <<"x",":","y">> }
    \cup { Letters(n) \o <<"-","b">> : n \in 0..MaxRun }

CommitHeaders ==
    { ty \o sc \o bg \o co \o de :
        ty \in TypeTexts, sc \in ScopeTexts, bg \in BangTexts,
        co \in ColonTexts, de \in DescTexts }

InitBranch ==
    /\ commitHeader \in CommitHeaders
    /\ derived = None

DeriveBranch ==
    /\ derived = None
    /\ derived' = deriveBranchNameFromCommit(commitHeader)
    /\ UNCHANGED commitHeader
    /\ UNCHANGED <<riskVars, cmdVars, commitVars, replyVars, pushVars, ctxVars, textVars>>

InitBranchOnly == InitBranch /\ IdleRisk /\ IdleCmd /\ IdleCommit /\ IdleReply /\ IdlePush /\ IdleCtx /\ IdleText

NextBranch ==
    \/ DeriveBranch

SpecBranch == InitBranchOnly /\ [][NextBranch]_vars

-----------------------------------------------------------------------------
(* runPush: the push flow.                                                 *)
(* ppc is the position: "start", "prompt" (blocked on the read of the      *)
(* protected-branch prompt), "branch" (before git checkout -b), "push"     *)
(* (before HasUpstream and git push), "done" (returned).                   *)
(* startBranch is the branch HEAD names when the command starts,           *)
(* headBranch the one it names now. pushOps lists the git calls that       *)
(* change the repository or the remote.                                    *)

PushAnswerLines ==
    { <<"\n">>, <<>>, <<"y","\n">>, <<" ","Y","E","S","\n">>, <<"n","\n">>,
      <<"N","o","\n">>, <<"o","k","\n">> }

InitPush ==
    /\ ppc = "start"
    /\ startBranch \in RepoBranches
    /\ headBranch = startBranch
    /\ lastSubject \in RawMessages \cup { <<"!","!">> }
    /\ suggestedBranch = None
    /\ pushAnswer = None
    /\ pushOps = <<>>
    /\ pushErr = "none"
    /\ upstream \in BOOLEAN

ReturnPush(err) ==
    /\ ppc' = "done"
    /\ pushErr' = err

\* runPush up to the prompt: EnsureRepository, CurrentBranch and, on a
\* protected branch, LastCommitSubject and the derived name
PushPreflight ==
    /\ ppc = "start"
    /\ \E outcome \in IF expired THEN {"error"} ELSE {"ok", "error"} :
         IF outcome = "error"
         THEN ReturnPush("preflight failed") /\ UNCHANGED suggestedBranch
         ELSE IF headBranch = <<>>
         THEN ReturnPush("could not determine current branch") /\ UNCHANGED suggestedBranch
         ELSE IF isProtectedBranch(headBranch)
         THEN /\ suggestedBranch' = deriveBranchNameFromCommit(TrimSpace(lastSubject))
              /\ ppc' = "prompt"
              /\ UNCHANGED pushErr
         ELSE ppc' = "push" /\ UNCHANGED <<suggestedBranch, pushErr>>
    /\ UNCHANGED <<startBranch, headBranch, lastSubject, pushAnswer, pushOps, upstream>>
    /\ UNCHANGED <<riskVars, cmdVars, commitVars, replyVars, branchVars, ctxVars, textVars>>

\* mutant: only "n" and "no" decline
pushDeclined_OnlyNo(line) ==
    ToLower(TrimSpace(line)) \in {<<"n">>, <<"n","o">>}

\* answer != "" && answer != "y" && answer != "yes"
pushDeclined(line) ==
    ToLower(TrimSpace(line)) \notin {<<>>, <<"y">>, Yes}

\* the read of the protected-branch prompt
AnswerPushPrompt ==
    /\ ppc = "prompt"
    /\ \E line \in PushAnswerLines :
         /\ pushAnswer' = line
         /\ IF pushDeclined(line)
            THEN ReturnPush("nil")
            ELSE ppc' = "branch" /\ UNCHANGED pushErr
    /\ UNCHANGED <<startBranch, headBranch, lastSubject, suggestedBranch, pushOps, upstream>>
    /\ UNCHANGED <<riskVars, cmdVars, commitVars, replyVars, branchVars, ctxVars, textVars>>

\* mutant: the error of git checkout -b is dropped and the push goes on
PushCreateBranch_IgnoreError ==
    /\ ppc = "branch"
    /\ \E ok \in IF expired THEN {FALSE} ELSE BOOLEAN :
         /\ pushOps' = Append(pushOps, [op |-> "checkout -b", arg |-> suggestedBranch,
                                        setUpstream |-> FALSE, ok |-> ok])
         /\ headBranch' = IF ok THEN suggestedBranch ELSE headBranch
         /\ ppc' = "push"
         /\ UNCHANGED <<pushErr, upstream>>
    /\ UNCHANGED <<startBranch, lastSubject, suggestedBranch, pushAnswer>>
    /\ UNCHANGED <<riskVars, cmdVars, commitVars, replyVars, branchVars, ctxVars, textVars>>

\* git.CreateAndCheckoutBranch(ctx, wd, suggested); branch = suggested
PushCreateBranch ==
    /\ ppc = "branch"
    /\ \E ok \in IF expired THEN {FALSE} ELSE BOOLEAN :
         /\ pushOps' = Append(pushOps, [op |-> "checkout -b", arg |-> suggestedBranch,
                                        setUpstream |-> FALSE, ok |-> ok])
         /\ IF ok
            THEN /\ headBranch' = suggestedBranch
                 /\ upstream' \in BOOLEAN
                 /\ ppc' = "push"
                 /\ UNCHANGED pushErr
            ELSE ReturnPush("git checkout -b failed") /\ UNCHANGED <<headBranch, upstream>>
    /\ UNCHANGED <<startBranch, lastSubject, suggestedBranch, pushAnswer>>
    /\ UNCHANGED <<riskVars, cmdVars, commitVars, replyVars, branchVars, ctxVars, textVars>>

\* mutant: the push always sets the upstream
PushCurrentBranch_AlwaysSetUpstream ==
    /\ ppc = "push"
    /\ \E outcome \in IF expired THEN {"error"} ELSE {"ok", "push failed", "error"} :
         IF outcome = "error"
         THEN ReturnPush("current branch failed") /\ UNCHANGED <<pushOps, upstream>>
         ELSE /\ pushOps' = Append(pushOps, [op |-> "push", arg |-> headBranch,
                                             setUpstream |-> TRUE,
                                             ok |-> (outcome = "ok")])
              /\ upstream' = (upstream \/ outcome = "ok")
              /\ ReturnPush(IF outcome = "ok" THEN "nil" ELSE "git push failed")
    /\ UNCHANGED <<startBranch, headBranch, lastSubject, suggestedBranch, pushAnswer>>
    /\ UNCHANGED <<riskVars, cmdVars, commitVars, replyVars, branchVars, ctxVars, textVars>>

\* git.HasUpstream and git.PushCurrentBranch(ctx, wd, !hasUpstream), which
\* reads the current branch again before it runs git push; "error" is a
\* failure of EnsureRepository or of that read. upstream is whether the
\* current branch has an upstream configured: git rev-parse @{u} succeeds
\* exactly then, and a successful git push -u configures one.
PushCurrentBranch ==
    /\ ppc = "push"
    /\ \E outcome \in IF expired THEN {"error"} ELSE {"ok", "push failed", "error"} :
         IF outcome = "error"
         THEN ReturnPush("current branch failed") /\ UNCHANGED <<pushOps, upstream>>
         ELSE /\ pushOps' = Append(pushOps, [op |-> "push", arg |-> headBranch,
                                             setUpstream |-> ~upstream,
                                             ok |-> (outcome = "ok")])
              /\ upstream' = (upstream \/ outcome = "ok")
              /\ ReturnPush(IF outcome = "ok" THEN "nil" ELSE "git push failed")
    /\ UNCHANGED <<startBranch, headBranch, lastSubject, suggestedBranch, pushAnswer>>
    /\ UNCHANGED <<riskVars, cmdVars, commitVars, replyVars, branchVars, ctxVars, textVars>>

\* the deadline of the context passes while push runs: from then on every
\* git call fails
PushDeadlinePasses ==
    /\ ppc \notin {"idle", "done"}
    /\ ~expired
    /\ expired' = TRUE
    /\ UNCHANGED <<riskVars, cmdVars, commitVars, replyVars, branchVars, pushVars, textVars>>

InitPushOnly == InitPush /\ IdleRisk /\ IdleCmd /\ IdleCommit /\ IdleReply /\ IdleBranch /\ IdleCtx /\ IdleText

NextPush ==
    \/ PushPreflight
    \/ AnswerPushPrompt
    \/ PushCreateBranch
    \/ PushCurrentBranch
    \/ PushDeadlinePasses

SpecPush == InitPushOnly /\ [][NextPush]_vars

-----------------------------------------------------------------------------
(* One invocation of sg: one of cmd, commit and push.                      *)

InitInvocation ==
    \/ InitCmd /\ IdleRisk /\ IdleCommit /\ IdleReply /\ IdleBranch /\ IdlePush
               /\ IdleCtx /\ IdleText
    \/ InitCommit /\ IdleRisk /\ IdleCmd /\ IdleReply /\ IdleBranch /\ IdlePush
                  /\ IdleCtx /\ IdleText
    \/ InitPush /\ IdleRisk /\ IdleCmd /\ IdleCommit /\ IdleReply /\ IdleBranch
                /\ IdleCtx /\ IdleText

NextInvocation ==
    \/ SuggestCommands
    \/ SuggestCommandsFails
    \/ DispatchLine
    \/ DispatchMenu
    \/ ChoiceAccept
    \/ ChoiceDecline
    \/ ChoiceEdit
    \/ ChoiceBrowse
    \/ ChoiceInvalid
    \/ EditCommand
    \/ BrowseAlternates
    \/ MenuPick
    \/ MenuCancel
    \/ ConfirmHighRisk
    \/ ShellExit
    \/ CommitPreflight
    \/ AnalyzeCommit
    \/ AnalyzeCommitFails
    \/ AnswerPrivacyPrompt
    \/ CreateAndCheckoutBranch
    \/ AddAll
    \/ Commit
    \/ PushPreflight
    \/ AnswerPushPrompt
    \/ PushCreateBranch
    \/ PushCurrentBranch

SpecInvocation == InitInvocation /\ [][NextInvocation]_vars

-----------------------------------------------------------------------------
(* generateContentResponse.extractText as a function of the candidates.    *)

\* the most candidates of a response
MaxCands == 2

\* the most parts of a candidate
MaxParts == 2

PartTexts == { <<" ">>, <<" ","a"," ">>, <<"b">> }

\* candidate.Content.Parts of one candidate
PartLists == UNION {[1..n -> PartTexts] : n \in 0..MaxParts}

\* resp.Candidates
CandidateLists == UNION {[1..n -> PartLists] : n \in 0..MaxCands}

\* the inner loop: the first part that is not blank, trimmed; <<>> when none
RECURSIVE firstText(_)
firstText(parts) ==
    IF parts = <<>> THEN <<>>
    ELSE IF TrimSpace(Head(parts)) # <<>> THEN TrimSpace(Head(parts))
    ELSE firstText(Tail(parts))

\* the outer loop over the candidates
RECURSIVE scanCandidates(_)
scanCandidates(cands) ==
    IF cands = <<>>
    THEN [text |-> <<>>,
          err |-> "gemini response contained no non-empty text parts in any candidate"]
    ELSE IF firstText(Head(cands)) # <<>>
    THEN [text |-> firstText(Head(cands)), err |-> "nil"]
    ELSE scanCandidates(Tail(cands))

\* mutant: only the first candidate is read
extractText_FirstCandidateOnly(cands) ==
    IF Len(cands) = 0
    THEN [text |-> <<>>, err |-> "gemini response contained no candidates"]
    ELSE scanCandidates(<<Head(cands)>>)

extractText(cands) ==
    IF Len(cands) = 0
    THEN [text |-> <<>>, err |-> "gemini response contained no candidates"]
    ELSE scanCandidates(cands)

InitText ==
    /\ candidates \in CandidateLists
    /\ textOut = NoTextOut

\* text, err := genResp.extractText()
ExtractText ==
    /\ textOut = NoTextOut
    /\ textOut' = extractText(candidates)
    /\ UNCHANGED candidates
    /\ UNCHANGED <<riskVars, cmdVars, commitVars, replyVars, branchVars, pushVars, ctxVars>>

InitTextOnly ==
    InitText /\ IdleRisk /\ IdleCmd /\ IdleCommit /\ IdleReply /\ IdleBranch /\ IdlePush
             /\ IdleCtx

NextText ==
    \/ ExtractText

SpecText == InitTextOnly /\ [][NextText]_vars

-----------------------------------------------------------------------------
(* Properties of the command flow (specification Spec).                    *)

\* the confirmation read, trimmed and lower-cased, is the literal "yes"
SaidYes == confirmLine # None /\ ToLower(TrimSpace(confirmLine)) = Yes

Destructive(cmd) == ContainsAny(ToLower(cmd), dangerousPatterns)

BeginsWithModifying(cmd) == HasAnyPrefix(ToLower(cmd), modifyingPrefixes)

\* C1: in every mode (auto-accept, menu, line prompt) a selection whose
\* gating risk is High reaches the shell only after the confirmation read,
\* trimmed and lower-cased, equals "yes"; after any other confirmation input
\* (an empty line and end of input included) the invocation has returned nil
\* and nothing was ever launched; nothing is launched while the read blocks.
C1_HighNeedsLiteralYes ==
    /\ (launched # <<>> /\ primary.Risk = RiskLevelHigh) => SaidYes
    /\ (confirmLine # None /\ ~SaidYes) =>
           (launched = <<>> /\ pc = "done" /\ retErr = "nil")
    /\ pc = "confirm" => (launched = <<>> /\ primary.Risk = RiskLevelHigh)

\* a High-risk top suggestion launched in auto-accept mode after " YES "
C1_Witness ==
    /\ autoAccept
    /\ primary.Risk = RiskLevelHigh
    /\ launched = <<primary.Command>>
    /\ confirmLine = <<" ","Y","E","S"," ","\n">>

\* C2: on every path to the shell the gating risk is normalizeRisk of the
\* selection's command, the launched text is exactly that command, and a
\* launched text that contains a destructive pattern was confirmed with the
\* literal "yes", whatever the model reported and also after an edit.
C2_GateRiskIsOfExecutedText ==
    /\ pc \in {"choice", "edit", "browse", "confirm", "exec"} =>
           primary.Risk \in {normalizeRisk(primary.Command, r) : r \in RiskLevels}
    /\ launched # <<>> =>
           /\ launched = <<primary.Command>>
           /\ primary.Risk \in {normalizeRisk(launched[1], r) : r \in RiskLevels}
           /\ Destructive(launched[1]) => SaidYes

\* a destructive command that no suggestion carried (typed at the edit
\* prompt over a Low-risk selection) was launched
C2_Witness ==
    /\ launched # <<>>
    /\ Destructive(launched[1])
    /\ \A i \in 1..Len(suggestions) : suggestions[i].Command # launched[1]
    /\ suggestions[1].Risk = RiskLevelLow
    /\ Len(suggestions) = 1

\* C6: with dry-run set nothing is launched and no confirmation is read, the
\* invocation goes from the returned suggestions straight to return nil, also
\* with auto-accept set and whatever the risk of the top suggestion.
C6_DryRunLaunchesNothing ==
    dryRun =>
        /\ launched = <<>>
        /\ confirmLine = None
        /\ pc \in {"start", "suggested", "done"}
        /\ (pc = "done" /\ suggestions # <<>>) => retErr = "nil"

\* dry-run together with auto-accept over a destructive top suggestion
C6_Witness ==
    /\ dryRun
    /\ autoAccept
    /\ pc = "done"
    /\ suggestions # <<>>
    /\ Destructive(suggestions[1].Command)

KeepsCommand(c) == TrimSpace(c.Command) # <<>>

\* the candidates of the reply whose command is not blank, in reply order
Usable(env) == SelectSeq(env, KeepsCommand)

\* C9: SuggestCommands returns the candidates with a non-blank command, in
\* their original order and with the command trimmed; when none remains (all
\* blank, or no commands at all) it returns an error and no list.
C9_BlankDroppedOrderKept ==
    envelope # NoEnvelope =>
        IF Usable(envelope) = <<>>
        THEN /\ suggestions = <<>>
             /\ pc = "done"
             /\ retErr = "Gemini returned no usable command suggestions"
        ELSE /\ Len(suggestions) = Len(Usable(envelope))
             /\ \A i \in 1..Len(suggestions) :
                  /\ suggestions[i].Command = TrimSpace(Usable(envelope)[i].Command)
                  /\ TrimSpace(suggestions[i].Command) # <<>>

\* a reply of three candidates whose first is blank: two are returned
C9_Witness ==
    /\ envelope # NoEnvelope
    /\ Len(envelope) = 3
    /\ ~KeepsCommand(envelope[1])
    /\ Len(suggestions) = 2
    /\ suggestions[1].Command # suggestions[2].Command

\* C10: every returned suggestion's risk is low, medium or high: the trimmed
\* lower-cased model text when it is one of the three, Low for an empty
\* text, Medium for any other text.
C10_RiskIsClosedEnum ==
    (envelope # NoEnvelope /\ Len(suggestions) = Len(Usable(envelope))) =>
        \A i \in 1..Len(suggestions) :
            LET r == ToLower(TrimSpace(Usable(envelope)[i].Risk))
            IN /\ suggestions[i].Risk \in RiskLevels
               /\ suggestions[i].Risk =
                      IF r \in RiskLevels THEN r
                      ELSE IF r = <<>> THEN RiskLevelLow
                      ELSE RiskLevelMedium

\* the unrecognized text "critical" came back as Medium, " High " as High
C10_Witness ==
    /\ envelope # NoEnvelope
    /\ Len(suggestions) = 2
    /\ Len(envelope) = 2
    /\ envelope[1].Risk = <<"c","r","i","t","i","c","a","l">>
    /\ suggestions[1].Risk = RiskLevelMedium
    /\ envelope[2].Risk = <<" ","H","i","g","h"," ">>
    /\ suggestions[2].Risk = RiskLevelHigh

-----------------------------------------------------------------------------
(* Properties of normalizeRisk (specification SpecRisk).                   *)

Rank(r) == IF r = RiskLevelLow THEN 1 ELSE IF r = RiskLevelMedium THEN 2 ELSE 3

\* C3: for a command whose lower-cased text contains a destructive pattern,
\* normalizeRisk returns High for every input risk (Low, Medium, High, empty
\* or unrecognized), and normalizeRisk of that result is the same value.
C3_DestructiveIsHigh ==
    (nrOut # None /\ Destructive(nrCmd)) =>
        /\ nrOut = RiskLevelHigh
        /\ nrTwice # None => nrTwice = nrOut

\* a destructive command that also begins with a modifying prefix, reported
\* Low, normalised twice
C3_Witness ==
    /\ nrTwice = RiskLevelHigh
    /\ nrRisk = RiskLevelLow
    /\ Destructive(nrCmd)
    /\ BeginsWithModifying(nrCmd)

\* C4: for a command with no destructive pattern that the model labels Low,
\* normalizeRisk returns Medium when the lower-cased text begins with a
\* modifying prefix and Low when it does not.
C4_LowWithPrefixIsMedium ==
    (nrOut # None /\ ~Destructive(nrCmd) /\ nrRisk = RiskLevelLow) =>
        nrOut = IF BeginsWithModifying(nrCmd) THEN RiskLevelMedium ELSE RiskLevelLow

\* an upper-case command with a modifying prefix escalated to Medium
C4_Witness ==
    /\ nrOut = RiskLevelMedium
    /\ nrRisk = RiskLevelLow
    /\ ~Destructive(nrCmd)
    /\ nrCmd # ToLower(nrCmd)

\* C5: normalizeRisk never downgrades a Low, Medium or High input; an empty
\* input yields Low when neither a pattern nor a prefix applies; Medium and
\* High pass through when no destructive pattern matches.
C5_NeverDowngrades ==
    nrOut # None =>
        /\ nrRisk \in RiskLevels => (nrOut \in RiskLevels /\ Rank(nrOut) >= Rank(nrRisk))
        /\ (nrRisk = <<>> /\ ~Destructive(nrCmd) /\ ~BeginsWithModifying(nrCmd)) =>
               nrOut = RiskLevelLow
        /\ (nrRisk \in {RiskLevelMedium, RiskLevelHigh} /\ ~Destructive(nrCmd)) =>
               nrOut = nrRisk

\* a High command that begins with a modifying prefix stayed High
C5_Witness ==
    /\ nrOut = RiskLevelHigh
    /\ nrRisk = RiskLevelHigh
    /\ BeginsWithModifying(nrCmd)
    /\ ~Destructive(nrCmd)

-----------------------------------------------------------------------------
(* Properties of the commit flow (specification SpecCommit).               *)

\* the privacy confirmation was read and is "y" or "yes"
AnsweredYes == answer # None /\ ToLower(TrimSpace(answer)) \in {<<"y">>, Yes}

\* the privacy-risk text of the analysis, trimmed and lower-cased
ReportedPrivacyRisk == ToLower(TrimSpace(analysis.PrivacyRisk))

\* C7: with a Medium or High privacy risk no mutating git call (checkout -b,
\* add -A, commit) is made before the confirmation was answered "y" or
\* "yes"; any other answer, the empty one included, ends the invocation with
\* nil and no such call; with a Low or empty privacy risk no confirmation is
\* asked for.
C7_PrivacyGate ==
    analysis # NoAnalysis =>
        /\ (ReportedPrivacyRisk \in {RiskLevelMedium, RiskLevelHigh} /\ gitOps # <<>>)
               => AnsweredYes
        /\ (answer # None /\ ~AnsweredYes) =>
               (gitOps = <<>> /\ cpc = "done" /\ commitErr = "nil")
        /\ ReportedPrivacyRisk \in {<<>>, RiskLevelLow} =>
               (answer = None /\ cpc # "prompt")

\* a commit created on a High privacy risk after the answer " YES"
C7_Witness ==
    /\ analysis # NoAnalysis
    /\ ReportedPrivacyRisk = RiskLevelHigh
    /\ answer = <<" ","Y","E","S","\n">>
    /\ Len(gitOps) = 3
    /\ gitOps[3].op = "commit -m"
    /\ gitOps[3].ok

\* C8: a non-empty privacy-risk text that is none of low, medium, high is
\* treated as Medium: no mutating git call is made before the confirmation
\* was answered "y" or "yes".
C8_UnrecognizedPrivacyRiskIsMedium ==
    (analysis # NoAnalysis /\ ReportedPrivacyRisk \notin RiskLevels \cup {<<>>}) =>
        (gitOps # <<>> => AnsweredYes)

-----------------------------------------------------------------------------
(* Properties of the reply decoding (specification SpecReply).             *)

\* the number of braces c of s at the indices a..b
BraceCount(s, a, b, c) == Cardinality({i \in a..b : s[i] = c})

\* the indices of s at which as many braces have closed as have opened
\* since the first opening brace
ClosingIndices(s) ==
    {j \in IndexOf(s, "{")..Len(s) :
        BraceCount(s, IndexOf(s, "{"), j, "{") = BraceCount(s, IndexOf(s, "{"), j, "}")}

\* the text has a brace-balanced object span
HasBalancedSpan(s) == IndexOf(s, "{") # 0 /\ ClosingIndices(s) # {}

\* the index of the brace that returns the depth to zero
SpanEnd(s) == CHOOSE j \in ClosingIndices(s) : \A k \in ClosingIndices(s) : j <= k

\* C11: for a reply text that holds a brace-balanced object span followed by
\* more text, extractJSONBlock returns exactly the span from the first
\* opening brace to the closing brace that returns the depth to zero; what
\* comes before the span and after it is left out.
C11_BalancedSpanIsExtracted ==
    (rawJSON # None /\ HasBalancedSpan(reply) /\ SpanEnd(reply) < Len(reply))
        => rawJSON = SubSeq(reply, IndexOf(reply, "{"), SpanEnd(reply))

\* the reply "a{}a}" gave "{}": the text before, the text after and the
\* later closing brace are left out
C11_Witness ==
    /\ reply = <<"a","{","}","a","}">>
    /\ rawJSON = <<"{","}">>

\* C12: when the reply text has no opening brace, SuggestCommands and
\* AnalyzeCommit return the error that no JSON object was found, which
\* quotes the reply text; they never return without error.
C12_NoBraceIsAnError ==
    (tpc = "done" /\ \A i \in 1..Len(reply) : reply[i] # "{")
        => /\ replyErr.msg = "failed to find JSON object in Gemini response"
           /\ replyErr.text = reply

\* AnalyzeCommit, which returns without error for the reply "{}", returned
\* the error for the reply "a }"
C12_Witness ==
    /\ tpc = "done"
    /\ caller = "AnalyzeCommit"
    /\ reply = <<"a"," ","}">>
    /\ replyErr.msg = "failed to find JSON object in Gemini response"

-----------------------------------------------------------------------------
(* Properties of the branch-name derivation (specification SpecBranch).    *)

\* the category and the slug of a branch name "category/slug"
CategoryOf(name) == SubSeq(name, 1, IndexOf(name, "/") - 1)

SlugOf(name) == SubSeq(name, IndexOf(name, "/") + 1, Len(name))

\* the commit types with a category of their own
CategoryTable ==
    { <<<<"f","e","a","t">>, <<"f","e","a","t","u","r","e">>>>,
      <<<<"f","i","x">>, <<"f","i","x">>>>,
      <<<<"r","e","f","a","c","t","o","r">>, <<"r","e","f","a","c","t","o","r">>>>,
      <<<<"p","e","r","f">>, <<"p","e","r","f">>>>,
      <<<<"s","t","y","l","e">>, <<"s","t","y","l","e">>>>,
      <<<<"t","e","s","t">>, <<"t","e","s","t">>>>,
      <<<<"d","o","c","s">>, <<"d","o","c","s">>>>,
      <<<<"b","u","i","l","d">>, <<"b","u","i","l","d">>>>,
      <<<<"o","p","s">>, <<"o","p","s">>>>,
      <<<<"c","h","o","r","e">>, <<"c","h","o","r","e">>>>,
      <<<<"r","e","v","e","r","t">>, <<"r","e","v","e","r","t">>>> }

ExpectedCategory(token) ==
    IF \E row \in CategoryTable : row[1] = token
    THEN (CHOOSE row \in CategoryTable : row[1] = token)[2]
    ELSE <<"f","e","a","t","u","r","e">>

\* the type token of a trimmed header h with a colon: the text before the
\* first colon without one trailing "!" and without the scope, lower-cased
TypeToken(h) ==
    LET before == TrimSpace(SubSeq(h, 1, IndexOf(h, ":") - 1))
        noBang == IF before # <<>> /\ before[Len(before)] = "!"
                  THEN TrimSpace(SubSeq(before, 1, Len(before) - 1))
                  ELSE before
        opens == {i \in 1..Len(noBang) : noBang[i] = "("}
        noScope == IF opens = {} THEN noBang
                   ELSE SubSeq(noBang, 1, (CHOOSE i \in opens : \A j \in opens : i <= j) - 1)
    IN ToLower(TrimSpace(noScope))

\* the maximal runs of lower-case letters and digits of s, in order
RECURSIVE AlnumRuns(_, _)
AlnumRuns(s, run) ==
    IF s = <<>> THEN IF run = <<>> THEN <<>> ELSE <<run>>
    ELSE IF Head(s) \in LowerAlnum THEN AlnumRuns(Tail(s), Append(run, Head(s)))
    ELSE IF run = <<>> THEN AlnumRuns(Tail(s), <<>>)
    ELSE <<run>> \o AlnumRuns(Tail(s), <<>>)

RECURSIVE JoinWithDash(_)
JoinWithDash(runs) ==
    IF runs = <<>> THEN <<>>
    ELSE IF Len(runs) = 1 THEN runs[1]
    ELSE runs[1] \o <<"-">> \o JoinWithDash(Tail(runs))

\* the slug of a description: its runs of letters and digits, lower-cased
\* and joined by single dashes, cut to SlugCap characters, or the
\* placeholder when nothing is left
ExpectedSlug(desc) ==
    LET joined == JoinWithDash(AlnumRuns(ToLower(desc), <<>>))
        cut == SubSeq(joined, 1, IF Len(joined) > SlugCap THEN SlugCap ELSE Len(joined))
    IN IF cut = <<>> THEN <<"c","h","a","n","g","e","s">> ELSE cut

\* C13: for a non-empty header with a colon, deriveBranchNameFromCommit
\* returns category/slug, where category is the table image of the
\* lower-cased type token (the text before the colon without one trailing
\* "!" and without the parenthesized scope; feature for an unknown token)
\* and slug is the slug of the description after the colon; for an empty
\* or whitespace-only header it returns feature/changes.
C13_ColonHeaderGivesCategorySlug ==
    derived # None =>
        LET h == TrimSpace(commitHeader)
        IN IF h = <<>> THEN derived = <<"f","e","a","t","u","r","e">> \o <<"/">> \o <<"c","h","a","n","g","e","s">>
           ELSE IndexOf(h, ":") # 0 =>
                derived = ExpectedCategory(TypeToken(h)) \o <<"/">>
                          \o ExpectedSlug(SubSeq(h, IndexOf(h, ":") + 1, Len(h)))

\* "FIX(ui)!: Add  log-in! " gave fix/add-log-in
C13_Witness ==
    /\ commitHeader = <<"F","I","X","(","u","i",")","!",":"," ","A","d","d"," "," ","l","o","g","-","i","n","!"," ">>
    /\ derived = <<"f","i","x","/","a","d","d","-","l","o","g","-","i","n">>

\* C14: the slug has no two consecutive dashes and neither starts nor ends
\* with a dash, also when it was cut to the cap.
C14_SlugDashesAreInner ==
    derived # None =>
        LET slug == SlugOf(derived)
        IN /\ \A i \in 1..(Len(slug) - 1) : ~(slug[i] = "-" /\ slug[i + 1] = "-")
           /\ slug # <<>> => (slug[1] # "-" /\ slug[Len(slug)] # "-")

\* C15: the slug is not empty, whatever the header.
C15_SlugIsNotEmpty ==
    derived # None => SlugOf(derived) # <<>>

\* C16: the slug has at most SlugCap characters, whatever the header.
C16_SlugWithinCap ==
    derived # None => Len(SlugOf(derived)) <= SlugCap

\* the categories of the closed set as the claim lists them
ClaimedCategories ==
    { <<"f","e","a","t","u","r","e">>,
      <<"f","i","x">>,
      <<"h","o","t","f","i","x">>,
      <<"r","e","f","a","c","t","o","r">>,
      <<"d","o","c","s">>,
      <<"c","h","o","r","e">>,
      <<"t","e","s","t">>,
      <<"p","e","r","f">>,
      <<"o","p","s">>,
      <<"b","u","i","l","d">>,
      <<"r","e","v","e","r","t">> }

\* C17 as stated: the category is one of feature, fix, hotfix, refactor,
\* docs, chore, test, perf, ops, build and revert.
C17_CategoryInClaimedSet ==
    derived # None => CategoryOf(derived) \in ClaimedCategories

\* C17: the category is one of the fixed set feature, fix, hotfix, refactor,
\* docs, chore, test, perf, ops, build, revert and style, whatever the
\* header.
C17_CategoryInClosedSet ==
    derived # None => CategoryOf(derived) \in ClaimedCategories \cup { <<"s","t","y","l","e">> }

\* "style:x:y" gave the category style
C17_Witness ==
    /\ commitHeader = <<"s","t","y","l","e",":","x",":","y">>
    /\ CategoryOf(derived) = <<"s","t","y","l","e">>

-----------------------------------------------------------------------------
(* Properties of the outcome of an invocation.                             *)

\* the shell command was launched and exited with a status other than
\* zero, which the program reported
ExitedNonZero == pc = "done" /\ launched # <<>> /\ notice = ExitStatusNotice

\* C18: when the launched shell command exits with a non-zero status, the
\* status is reported and the invocation does not fail: it returns nil as it
\* does for a zero exit.
C18_NonZeroExitIsSuccess ==
    ExitedNonZero => retErr = "nil"

\* the answer at the protected-branch prompt was a negative one
PushAnsweredNo ==
    pushAnswer # None /\ ToLower(TrimSpace(pushAnswer)) \notin {<<>>, <<"y">>, Yes}

\* no shell command was launched and no git call that changes the
\* repository or the remote was made
NoSideEffect == launched = <<>> /\ gitOps = <<>> /\ pushOps = <<>>

\* C19: every cancellation by the user ends the invocation with a nil error,
\* with no shell command launched and no repository mutation: the decline at
\* the choice prompt and the Cancel or abort of the menu (both print the
\* cancelled notice), an answer other than "yes" at the High-risk gate, an
\* answer other than "y" or "yes" at the commit privacy prompt, and a
\* negative answer at the protected-branch prompt of push.
C19_CancellationIsNilAndHarmless ==
    /\ notice \in {CancelledNotice, HighRiskCancelledNotice}
           => (pc = "done" /\ retErr = "nil" /\ NoSideEffect)
    /\ (confirmLine # None /\ ~SaidYes) => notice = HighRiskCancelledNotice
    /\ (answer # None /\ ~AnsweredYes)
           => (cpc = "done" /\ commitErr = "nil" /\ NoSideEffect)
    /\ PushAnsweredNo => (ppc = "done" /\ pushErr = "nil" /\ NoSideEffect)

\* push on main, answered "No": returned nil without a git call
C19_Witness ==
    /\ startBranch = <<"m","a","i","n">>
    /\ pushAnswer = <<"N","o","\n">>
    /\ ppc = "done"
    /\ pushErr = "nil"
    /\ pushOps = <<>>

-----------------------------------------------------------------------------
(* Properties of the push flow (specification SpecPush).                   *)

\* the branch name derived from the latest commit subject
DerivedFromSubject == deriveBranchNameFromCommit(lastSubject)

\* C20: when push starts on a protected branch, git push is invoked only
\* after the branch derived from the latest commit subject was created and
\* checked out successfully, and it pushes that branch, never a protected
\* one; after a failed creation or a declined prompt no push is made.
C20_ProtectedBranchNeverPushed ==
    isProtectedBranch(startBranch) =>
        /\ \A i \in 1..Len(pushOps) : pushOps[i].op = "push" =>
              /\ \E j \in 1..(i - 1) :
                    pushOps[j] = [op |-> "checkout -b", arg |-> DerivedFromSubject,
                                  setUpstream |-> FALSE, ok |-> TRUE]
              /\ pushOps[i].arg = DerivedFromSubject
              /\ ~isProtectedBranch(pushOps[i].arg)
        /\ (PushAnsweredNo \/ \E j \in 1..Len(pushOps) :
                                 pushOps[j].op = "checkout -b" /\ ~pushOps[j].ok)
              => \A i \in 1..Len(pushOps) : pushOps[i].op # "push"

\* on Develop with the subject "feat: add x", feature/add-x was created and
\* then pushed
C20_Witness ==
    /\ startBranch = <<"D","e","v","e","l","o","p">>
    /\ lastSubject = <<"f","e","a","t",":"," ","a","d","d"," ","x">>
    /\ Len(pushOps) = 2
    /\ pushOps[1].op = "checkout -b" /\ pushOps[1].ok
    /\ pushOps[2].op = "push" /\ pushOps[2].ok
    /\ pushOps[2].arg = <<"f","e","a","t","u","r","e","/","a","d","d","-","x">>
    /\ pushErr = "nil"

\* the step invokes git push
PushInvoked ==
    Len(pushOps') = Len(pushOps) + 1 /\ pushOps'[Len(pushOps')].op = "push"

\* the git push calls made so far
PushCalls == {i \in 1..Len(pushOps) : pushOps[i].op = "push"}

\* C21: git push carries -u exactly when the current branch has no upstream
\* at the time of the call, and an invocation that returns nil without
\* having been declined at the prompt has invoked git push exactly once.
C21_SetUpstreamIffNoUpstream ==
    [][ /\ PushInvoked => (pushOps'[Len(pushOps')].setUpstream <=> ~upstream)
        /\ (ppc' = "done" /\ pushErr' = "nil" /\ ~PushAnsweredNo')
              => Cardinality(PushCalls') = 1 ]_vars

\* on feature/x without an upstream, one git push -u was made and succeeded
C21_Witness ==
    /\ startBranch = <<"f","e","a","t","u","r","e","/","x">>
    /\ ppc = "done"
    /\ pushErr = "nil"
    /\ Len(pushOps) = 1
    /\ pushOps[1].op = "push"
    /\ pushOps[1].setUpstream
    /\ pushOps[1].ok
    /\ upstream

-----------------------------------------------------------------------------
(* Properties of the commit flow on a protected branch and on an empty     *)
(* message (specification SpecCommit).                                     *)

\* the successful git checkout -b calls among the first n git calls
CheckoutsBefore(n) ==
    {j \in 1..(n - 1) : gitOps[j].op = "checkout -b" /\ gitOps[j].ok}

C23_EmptyMessageIsAnError ==
    (analysis # NoAnalysis /\ TrimSpace(analysis.CommitMessage) = <<>>)
        => /\ cpc = "done"
           /\ commitErr = "AI returned an empty commit message"
           /\ answer = None
           /\ gitOps = <<>>

\* an analysis with a blank message and a High privacy risk, on main
C23_Witness ==
    /\ analysis # NoAnalysis
    /\ analysis.CommitMessage = <<>>
    /\ analysis.PrivacyRisk = RiskLevelHigh
    /\ repoBranch = <<"m","a","i","n">>
    /\ cpc = "done"
    /\ commitErr = "AI returned an empty commit message"

-----------------------------------------------------------------------------
(* Properties of extractText (specification SpecText).                     *)

\* the text parts of the candidates cs in response order
RECURSIVE PartsInOrder(_)
PartsInOrder(cs) == IF cs = <<>> THEN <<>> ELSE Head(cs) \o PartsInOrder(Tail(cs))

\* the first of the parts ps that is not blank, trimmed; None when all are
FirstNonBlank(ps) ==
    LET good == {i \in 1..Len(ps) : TrimSpace(ps[i]) # <<>>}
    IN IF good = {} THEN None
       ELSE TrimSpace(ps[CHOOSE i \in good : \A j \in good : i <= j])

\* C24 as stated: the reply is the first non-blank text part of the first
\* candidate, trimmed; a response without candidates or without such a part
\* is an error.
C24_ReplyIsOfFirstCandidate ==
    textOut # NoTextOut =>
        IF candidates = <<>> \/ FirstNonBlank(candidates[1]) = None
        THEN textOut.err # "nil"
        ELSE textOut = [text |-> FirstNonBlank(candidates[1]), err |-> "nil"]

\* C24: the reply is the first non-blank text part in the order of the
\* response, that is of the first candidate that has one, trimmed; a
\* response without candidates, or without a non-blank text part in any
\* candidate, is an error.
C24_ReplyIsFirstNonBlankPart ==
    textOut # NoTextOut =>
        IF FirstNonBlank(PartsInOrder(candidates)) = None
        THEN textOut.err # "nil" /\ textOut.text = <<>>
        ELSE textOut = [text |-> FirstNonBlank(PartsInOrder(candidates)), err |-> "nil"]

\* the first candidate holds only a blank part, the reply "a" is the trimmed
\* second part of the second candidate
C24_Witness ==
    /\ candidates = << << <<" ">> >>, << <<" ">>, <<" ","a"," ">> >> >>
    /\ textOut = [text |-> <<"a">>, err |-> "nil"]


\* C25: in the line-prompt loop an edit never lowers the risk of the current
\* selection: a step that answers the edit prompt leaves a risk level at least
\* as high as before; an edit with non-empty text sets the command to the
\* trimmed text and the risk to normalizeRisk(editedText, previousRisk), an
\* empty one changes nothing. A High-risk command replaced by a harmless one
\* therefore still stands behind the High gate.
C25_EditNeverLowersRisk ==
    [][ (ui = "line" /\ pc = "edit" /\ pc' = "choice") =>
          /\ primary.Risk \in RiskLevels
          /\ primary'.Risk \in RiskLevels
          /\ Rank(primary'.Risk) >= Rank(primary.Risk)
          /\ IF TrimSpace(promptLine') # <<>>
             THEN /\ primary'.Command = TrimSpace(promptLine')
                  /\ primary'.Risk = normalizeRisk(TrimSpace(promptLine'), primary.Risk)
             ELSE primary' = primary ]_vars

\* a High-risk selection whose command was edited into a harmless one waits
\* at the High-risk confirmation
C25_Witness ==
    /\ ui = "line"
    /\ pc = "confirm"
    /\ steps > 0
    /\ primary.Command = <<"l","s">>
    /\ primary.Risk = RiskLevelHigh
    /\ normalizeRisk(primary.Command, RiskLevelLow) = RiskLevelLow

\* a line that selectAlternateSuggestion accepts as a pick among all
ValidPick(line, all) ==
    /\ TrimSpace(line) # <<>>
    /\ AtoiOk(TrimSpace(line))
    /\ Atoi(TrimSpace(line)) \in 1..Len(all)

\* C26: in the line-prompt loop an unrecognized choice, an edit answered with
\* an empty line, and a browse answered with an empty, non-numeric or
\* out-of-range pick all leave the current selection (command and risk)
\* unchanged and return to the choice prompt without executing anything.
C26_RejectedInputChangesNothing ==
    [][ /\ (ui = "line" /\ pc = "choice" /\ pc' = "choice") =>
              (primary' = primary /\ launched' = launched)
        /\ (ui = "line" /\ pc = "edit" /\ TrimSpace(promptLine') = <<>>) =>
              (primary' = primary /\ launched' = launched /\ pc' = "choice")
        /\ (ui = "line" /\ pc = "browse" /\ ~ValidPick(promptLine', suggestions)) =>
              (primary' = primary /\ launched' = launched /\ pc' = "choice") ]_vars

\* an out-of-range pick was made while a suggestion other than the first of
\* the list was current, and the loop is back at the choice prompt
C26_Witness ==
    /\ ui = "line"
    /\ pc = "choice"
    /\ promptLine = <<"9","\n">>
    /\ Len(suggestions) >= 2
    /\ primary # withNormalizedRisk(suggestions[1])
    /\ launched = <<>>


(***************************************************************************)
(* What the prompts print as the risk of a suggestion.                     *)
(***************************************************************************)
\* renderSuggestions of the line prompt: strings.ToUpper(string(primary.Risk))
topRiskLabel(p) == ToUpper(p.Risk)

\* the menu items and the menu's list: strings.ToUpper(string(s.Risk)) of
\* suggestions[i] as SuggestCommands returned it
menuRiskLabel(all, i) == ToUpper(all[i].Risk)

\* the list of selectAlternateSuggestion: strings.ToUpper(string(s.Risk))
alternateRiskLabel(all, i) == ToUpper(all[i].Risk)

\* the level that gates the execution of s: runSuggestedCommand is given s
\* with Risk = normalizeRisk(s.Command, s.Risk)
GatingLabel(s) == ToUpper(normalizeRisk(s.Command, s.Risk))

\* C27: the risk level shown for a suggestion when it is presented (the top
\* suggestion of the line prompt, the items of the menu, the alternates list)
\* is the level that gates its execution after the safety overlay.
C27_ShownRiskIsGatingRisk ==
    /\ (ui = "line" /\ pc = "choice") => topRiskLabel(primary) = GatingLabel(primary)
    /\ (ui = "menu" /\ pc = "menu") =>
          \A i \in 1..MenuLimit(suggestions) :
             menuRiskLabel(suggestions, i) = GatingLabel(suggestions[i])
    /\ (ui = "line" /\ pc = "browse") =>
          \A i \in 1..Len(suggestions) :
             alternateRiskLabel(suggestions, i) = GatingLabel(suggestions[i])


\* the commands of the first two suggestions, as they are launched
FirstTwoCommands ==
    { TrimSpace(suggestions[i].Command) :
        i \in { j \in 1..Len(suggestions) : j <= 2 } }

\* C28: in the menu flow at most the first two suggestions are offered, with
\* an explicit Cancel entry placed last; choosing Cancel (or a failed prompt)
\* ends the invocation as a cancellation with nothing executed; a pick makes
\* one of the first two suggestions the selection, and whatever is executed
\* is the command of one of the first two suggestions, never of a suggestion
\* ranked third or lower.
C28_MenuOffersTopTwoAndCancel ==
    /\ [] ( (ui = "menu" /\ pc = "menu") =>
              /\ Len(menuItems(suggestions)) <= 3
              /\ menuItems(suggestions)[Len(menuItems(suggestions))] = <<"C","a","n","c","e","l">>
              /\ \A i \in 1..(Len(menuItems(suggestions)) - 1) :
                    i <= 2 /\ menuItems(suggestions)[i] = suggestions[i].Command )
    /\ [] ( (ui = "menu" /\ launched # <<>>) =>
              \A i \in 1..Len(launched) : launched[i] \in FirstTwoCommands )
    /\ [][ (ui = "menu" /\ pc = "menu") =>
              IF pc' = "done" /\ retErr' = "nil"
              THEN launched' = <<>> /\ notice' = CancelledNotice
              ELSE \E i \in { j \in 1..Len(suggestions) : j <= 2 } :
                      primary' = withNormalizedRisk(suggestions[i]) ]_vars

\* with three suggestions on offer by the model, the second one was picked
\* in the menu and launched
C28_Witness ==
    /\ ui = "menu"
    /\ ~autoAccept
    /\ Len(suggestions) = 3
    /\ launched # <<>>
    /\ launched[1] = TrimSpace(suggestions[2].Command)
    /\ launched[1] # TrimSpace(suggestions[1].Command)
    /\ TrimSpace(suggestions[3].Command) \notin FirstTwoCommands


\* C29: the final shell command runs under the deadline context created at
\* the start of the invocation, the one that also bounds the remote call, and
\* has no deadline of its own: once that deadline has passed (for example
\* while the program waited for input) the remote call cannot succeed, and a
\* launched command does not run to completion: its run ends in an error that
\* is reported and returned.
C29_ExpiredDeadlineStopsTheCommand ==
    /\ [] ( (pc = "done" /\ launched # <<>> /\ expired) =>
              /\ retErr \in {"exit status 1", "run failed"}
              /\ notice \in {ExitStatusNotice, RunErrorNotice} )
    /\ [][ (pc = "start" /\ expired /\ pc' # pc) =>
              (pc' = "done" /\ retErr' \notin {"nil", "none"} /\ suggestions' = <<>>) ]_vars

\* the deadline passed during an invocation that waited at the High-risk
\* confirmation; the confirmed command was launched and its run failed
C29_Witness ==
    /\ pc = "done"
    /\ expired
    /\ confirmLine # None
    /\ launched # <<>>
    /\ retErr = "run failed"
    /\ notice = RunErrorNotice


\* the reply has an opening brace and the depth counted from it never
\* returns to zero
NeverCloses(s) == IndexOf(s, "{") # 0 /\ ClosingIndices(s) = {}

ParseErrors ==
    { "failed to parse command suggestions JSON from Gemini",
      "failed to parse commit analysis JSON from Gemini" }

\* C30 as stated: when the reply has an opening brace whose depth never
\* returns to zero, extractJSONBlock returns the text from the first opening
\* brace to the end of the reply, and SuggestCommands and AnalyzeCommit then
\* fail with the parse error that carries this span.
C30_OpenSpanAlwaysFailsToParse ==
    (tpc = "done" /\ NeverCloses(reply)) =>
        /\ rawJSON = SubSeq(reply, IndexOf(reply, "{"), Len(reply))
        /\ replyErr.msg \in ParseErrors
        /\ replyErr.text = rawJSON

\* C30, amended: when the reply has an opening brace whose depth never
\* returns to zero, extractJSONBlock returns the text from the first opening
\* brace to the end of the reply, never an empty text and never a shorter
\* prefix; SuggestCommands and AnalyzeCommit then fail with the parse error
\* that carries this span, unless the span is valid JSON all the same (the
\* unmatched brace stands inside a string), in which case it is decoded like
\* any other object.
C30_OpenSpanFailsToParseUnlessValid ==
    /\ (rawJSON # None /\ NeverCloses(reply)) =>
          /\ rawJSON = SubSeq(reply, IndexOf(reply, "{"), Len(reply))
          /\ rawJSON # <<>>
    /\ (tpc = "done" /\ NeverCloses(reply)) =>
          IF jsonValid(rawJSON)
          THEN replyErr.msg = (IF caller = "SuggestCommands"
                               THEN "Gemini returned no usable command suggestions"
                               ELSE "nil")
          ELSE /\ replyErr.msg = (IF caller = "SuggestCommands"
                                  THEN "failed to parse command suggestions JSON from Gemini"
                                  ELSE "failed to parse commit analysis JSON from Gemini")
               /\ replyErr.text = rawJSON

\* the reply "a {{a" was cut from its first brace to its end and
\* SuggestCommands returned the parse error with that span
C30_Witness ==
    /\ tpc = "done"
    /\ caller = "SuggestCommands"
    /\ reply = <<"a"," ","{","{","a">>
    /\ rawJSON = <<"{","{","a">>
    /\ replyErr = [msg |-> "failed to parse command suggestions JSON from Gemini",
                   text |-> <<"{","{","a">>]


\* C31: in the line-prompt loop, a valid pick k at the alternates prompt
\* makes the current selection suggestion k of the list as the normalizer
\* returned it, whatever the selection was edited into before, with the
\* safety overlay applied to it afresh; edit and browse steps never change
\* the list of suggestions, which stays the normalizer's result.
C31_PickTakesListEntryWithOverlay ==
    /\ [] ( (ui = "line" /\ pc \in {"choice", "edit", "browse"}) =>
              suggestions = normalizeSuggestions(envelope) )
    /\ [][ /\ (ui = "line" /\ pc \in {"edit", "browse"}) => suggestions' = suggestions
           /\ (ui = "line" /\ pc = "browse" /\ ValidPick(promptLine', suggestions)) =>
                 /\ pc' = "choice"
                 /\ primary'.Command = suggestions[Atoi(TrimSpace(promptLine'))].Command
                 /\ primary'.Risk =
                       normalizeRisk(suggestions[Atoi(TrimSpace(promptLine'))].Command,
                                     suggestions[Atoi(TrimSpace(promptLine'))].Risk) ]_vars

\* after an earlier turn of the loop the second suggestion was picked; the
\* selection is that suggestion, with a risk the overlay raised above the
\* one in the list
C31_Witness ==
    /\ ui = "line"
    /\ pc = "choice"
    /\ steps = 2
    /\ promptLine = <<"2","\n">>
    /\ Len(suggestions) >= 2
    /\ primary.Command = suggestions[2].Command
    /\ primary.Risk = RiskLevelHigh
    /\ suggestions[2].Risk = RiskLevelLow


\* the repository mutations of runCommit in their order
MutationOrder ==
    IF isProtectedBranch(repoBranch)
    THEN <<"checkout -b", "add -A", "commit -m">>
    ELSE <<"add -A", "commit -m">>

\* the error runCommit returns when the git call fails
ErrorOf(op) ==
    IF op = "checkout -b" THEN "git checkout -b failed"
    ELSE IF op = "add -A" THEN "git add -A failed"
    ELSE "git commit failed"

\* C32: runCommit mutates the repository only in the order create and check
\* out a branch (only on a protected branch), stage all, commit, each at most
\* once; when a step fails runCommit returns that step's error at once, the
\* later steps are not performed and no step undoes an earlier one.
C32_MutationsInOrderStopAtFailure ==
    /\ Len(gitOps) <= Len(MutationOrder)
    /\ \A i \in 1..Len(gitOps) :
          /\ gitOps[i].op = MutationOrder[i]
          /\ i < Len(gitOps) => gitOps[i].ok
    /\ (gitOps # <<>> /\ ~gitOps[Len(gitOps)].ok) =>
          /\ cpc = "done"
          /\ commitErr = ErrorOf(gitOps[Len(gitOps)].op)
    /\ (cpc = "done" /\ commitErr = "nil" /\ gitOps # <<>>) =>
          Len(gitOps) = Len(MutationOrder)

\* on a protected branch the new branch was checked out, then git add -A
\* failed: its error is returned, the branch stays, no commit was attempted
C32_Witness ==
    /\ isProtectedBranch(repoBranch)
    /\ cpc = "done"
    /\ Len(gitOps) = 2
    /\ gitOps[1].op = "checkout -b" /\ gitOps[1].ok
    /\ gitOps[2].op = "add -A" /\ ~gitOps[2].ok
    /\ commitErr = "git add -A failed"


\* C33: the branch that commit or push creates when it diverts from a
\* protected branch is never itself one of the protected names (main,
\* master, develop, dev), whether the name is the one of the model's
\* analysis or the one derived from the commit header.
C33_CreatedBranchIsNotProtected ==
    /\ \A i \in 1..Len(gitOps) :
          (gitOps[i].op = "checkout -b" /\ gitOps[i].ok) => ~isProtectedBranch(gitOps[i].arg)
    /\ \A i \in 1..Len(pushOps) :
          (pushOps[i].op = "checkout -b" /\ pushOps[i].ok) => ~isProtectedBranch(pushOps[i].arg)


\* C34: in the line-prompt loop a read at the end of the input is taken as
\* an empty line, that is as accept: the loop ends and the current selection
\* is handed to execution, launched at once when its risk is Low or Medium;
\* a High-risk selection is cancelled, because its confirmation read is at
\* the end of the input too. So on an input that ends the invocation always
\* returns.
C34_EndOfInputAcceptsAndLoopEnds ==
    /\ [][ (ui = "line" /\ pc = "choice" /\ stdin = <<>>) =>
              /\ primary' = primary
              /\ IF primary.Risk = RiskLevelHigh
                 THEN pc' = "confirm" /\ launched' = launched
                 ELSE pc' = "exec" /\ launched' = Append(launched, TrimSpace(primary.Command)) ]_vars
    /\ [][ (ui = "line" /\ pc = "confirm" /\ stdin = <<>>) =>
              /\ pc' = "done"
              /\ launched' = launched
              /\ retErr' = "nil"
              /\ notice' = HighRiskCancelledNotice ]_vars
    /\ <>(pc = "done")

\* both lines of the input were used up by two turns of the loop, the third
\* choice read met the end of the input, and the selection was launched and
\* ran
C34_Witness ==
    /\ ui = "line"
    /\ stdin = <<>>
    /\ pc = "done"
    /\ steps = 2
    /\ confirmLine = None
    /\ Len(launched) = 1
    /\ retErr = "nil"

====
